---- MODULE Spec2Model ----
(***************************************************************************)
(* Model of the OSAC Terraform provider's asynchronous provisioning path:  *)
(* ComputeInstanceResource.Create / Update, the instanceStateRefreshFunc   *)
(* closure, and WaitForReady, which hands its configuration to             *)
(* retry.StateChangeConf.WaitForStateContext of terraform-plugin-sdk/v2.   *)
(*                                                                         *)
(* WaitForStateContext runs two flows: a refresh goroutine (variables      *)
(* g, wait, result, gTimer) and the caller's select loop (variable pc),    *)
(* joined by the channel resCh (capacity 1) and the cancellation channel   *)
(* cancelCh.  Time is in milliseconds.  A Go select with several ready     *)
(* cases is a nondeterministic choice between them.                        *)
(***************************************************************************)
EXTENDS Integers, Sequences, FiniteSets, TLC

(* ---------------- bounds of the model ---------------- *)

\* Refresh calls per wait: the remote answers the MaxRefresh-th call with a
\* terminal answer (or never).
MaxRefresh == 3

\* A refresh call returns at once, after RefreshLatency, or at a later timer.
RefreshLatency == 3

(* ---------------- program constants ---------------- *)

DefaultCreateTimeout == 1800000

DefaultUpdateTimeout == 1800000

DefaultPollInterval == 10000

DefaultMinPollInterval == 5000

\* retry.StateChangeConf: first wait after the zero wait, cap of the backoff,
\* and the grace period granted to a refresh in flight when the timeout fires.
FirstBackoff == 100

MaxBackoff == 10000

refreshGracePeriod == 30000

STATE_UNSPECIFIED == "COMPUTE_INSTANCE_STATE_UNSPECIFIED"

STATE_PROGRESSING == "COMPUTE_INSTANCE_STATE_PROGRESSING"

STATE_READY == "COMPUTE_INSTANCE_STATE_READY"

STATE_FAILED == "COMPUTE_INSTANCE_STATE_FAILED"

\* String() of an enum number the client does not know (its decimal form).
STATE_OTHER == "4"

\* PendingStates / TargetStates passed by Create and Update.
PendingStates == {STATE_UNSPECIFIED, STATE_PROGRESSING}

TargetStates == {STATE_READY}

(* ---------------- inputs ---------------- *)

Ids == {"i1", "i2"}

TimeoutChoices == {0, 50, 1000}

PollIntervalChoices == {0, 20}

MinPollIntervalChoices == {0, 10}

\* What the remote Get can answer: a transport error, an object without
\* status, or an object whose status carries one of the states.
StatusStates == {STATE_UNSPECIFIED, STATE_PROGRESSING, STATE_READY, STATE_FAILED, STATE_OTHER}

GetAnswers == {"rpc_error", "absent"} \cup StatusStates

(* ---------------- values ---------------- *)

NoObject == [id |-> "", status |-> "", ip |-> "", seq |-> 0]

NoError == << >>

Err(kind, state) == << [kind |-> kind, state |-> state] >>

\* fmt.Errorf("...: %w", err): a new error in front of the chain it wraps.
Wrap(kind, err) == Err(kind, "") \o err

Wraps(err, inner) ==
    /\ inner # NoError
    /\ \E i \in 1..Len(err) : SubSeq(err, i, Len(err)) = inner

HasKind(err, kind) == \E i \in 1..Len(err) : err[i].kind = kind

EmptyResult == [Result |-> NoObject, State |-> "", Error |-> NoError, Done |-> FALSE]

NoOutcome == [kind |-> "none", obj |-> NoObject, err |-> NoError]

NoModel == [ID |-> "", State |-> "null", IPAddress |-> "null"]

NoRun == [done |-> FALSE, answers |-> << >>, outcome |-> NoOutcome, calls |-> 0,
          timedOut |-> FALSE]

NoCancel == [at |-> 0, calls |-> 0, g |-> ""]

VARIABLES
    op,            \* the operation invoked: "none", "Create", "Read", "Update", "Delete",
                   \* "DataSourceRead", "WaitForReady"
    resourceKind,  \* the resource kind it was invoked on
    priorState,    \* req.State: what was recorded before the operation
    firstRun,      \* a replayed wait: what its first run was given and returned
    instanceID,    \* id captured by the refresh closure
    config,        \* WaitForReadyConfig as passed by the caller
    conf,          \* retry.StateChangeConf built from it
    pc,            \* caller flow: "idle", "wait", "grace", "returned"
    g,             \* refresh goroutine: "none", "delay", "loop", "select", "refresh", "final", "exit"
    now,           \* wall clock, ms since the invocation
    deadline,      \* time.After(conf.Timeout), then time.After(refreshGracePeriod)
    gTimer,        \* the goroutine's pending time.After
    wait,          \* goroutine local: wait
    result,        \* goroutine local: result
    lastResult,    \* caller local: lastResult
    resCh,         \* buffered channel, capacity 1
    resClosed,     \* close(resCh) done
    cancelCh,      \* close(cancelCh) done
    ctxDone,       \* the calling context is cancelled
    callStart,     \* when the refresh in flight was called
    callCtxDone,   \* the context was already cancelled at that call
    refreshCalls,  \* refresh calls made
    refreshLog,    \* results of the refresh calls that returned, in order
    rpcLog,        \* the remote calls issued, in order
    cancelLog,     \* where the flows stood when the context was cancelled
    rpcErr,        \* the error of the handler's own remote call
    sleepLog,      \* the waits of positive length the goroutine entered, in order
    outcome,       \* what WaitForReady returned
    returnedAt,    \* when it returned
    callsAtReturn, \* refresh calls made when it returned
    sleepsAtReturn,\* sleeps started when it returned
    tfState,       \* resp.State of the operation
    diags,         \* resp.Diagnostics of the operation
    plan,          \* req.Plan (req.Config of the provider): the declared fields
    request,       \* the object sent with the handler's Create / Update call
    response,      \* the object the handler's own remote call returned
    providerData,  \* resp.ResourceData / resp.DataSourceData of the provider's Configure
    codecPc,       \* the parameter codec on its own: "off", "input", "encoded", "decoded"
    tfParams,      \* the Terraform map given to convertTemplateParameters
    encoded,       \* what convertTemplateParameters returned for it
    decoded        \* what decoding that result returned

vars == << op, resourceKind, priorState, firstRun, instanceID, config, conf, pc, g, now, deadline, gTimer,
           wait, result, lastResult, resCh, resClosed, cancelCh, ctxDone, callStart,
           callCtxDone, refreshCalls, refreshLog, rpcLog, cancelLog, rpcErr, sleepLog,
           outcome, returnedAt, callsAtReturn, sleepsAtReturn, tfState, diags,
           plan, request, response, providerData, codecPc, tfParams, encoded, decoded >>

\* Everything but the codec's own variables.
waitVars == << op, resourceKind, priorState, firstRun, instanceID, config, conf, pc, g,
              now, deadline, gTimer, wait, result, lastResult, resCh, resClosed, cancelCh,
              ctxDone, callStart, callCtxDone, refreshCalls, refreshLog, rpcLog, cancelLog,
              rpcErr, sleepLog, outcome, returnedAt, callsAtReturn, sleepsAtReturn, tfState,
              diags, plan, request, response, providerData >>

codecVars == << codecPc, tfParams, encoded, decoded >>

callerVars == << op, resourceKind, priorState, firstRun, instanceID, config, conf,
                 plan, request, response, providerData, codecVars >>

histVars == << refreshCalls, refreshLog, sleepLog, rpcLog, cancelLog >>

retVars == << outcome, returnedAt, callsAtReturn, sleepsAtReturn, tfState, diags, rpcErr >>

gVars == << g, gTimer, wait, result, callStart, callCtxDone >>

(* ---------------- WaitForReady: configuration ---------------- *)

\* Mutant: the default timeout replaces the one that was given.
ApplyDefaults_TimeoutAlwaysDefault(c) ==
    [Timeout |-> DefaultCreateTimeout,
     PollInterval |-> IF c.PollInterval = 0 THEN DefaultPollInterval ELSE c.PollInterval,
     MinPollInterval |->
         IF c.MinPollInterval = 0 THEN DefaultMinPollInterval ELSE c.MinPollInterval]

\* WaitForReady, "Apply defaults".
ApplyDefaults(c) ==
    [Timeout |-> IF c.Timeout = 0 THEN DefaultCreateTimeout ELSE c.Timeout,
     PollInterval |-> IF c.PollInterval = 0 THEN DefaultPollInterval ELSE c.PollInterval,
     MinPollInterval |->
         IF c.MinPollInterval = 0 THEN DefaultMinPollInterval ELSE c.MinPollInterval]

\* Mutant: the target list also names a pending state.
StateChangeConf_PendingAsTarget(c) ==
    [Pending |-> PendingStates,
     Target |-> TargetStates \cup {STATE_PROGRESSING},
     Timeout |-> ApplyDefaults(c).Timeout,
     Delay |-> ApplyDefaults(c).PollInterval,
     MinTimeout |-> ApplyDefaults(c).MinPollInterval,
     PollInterval |-> 0]

\* Mutant: the pending list is not passed on.
StateChangeConf_NoPending(c) ==
    [Pending |-> {},
     Target |-> TargetStates,
     Timeout |-> ApplyDefaults(c).Timeout,
     Delay |-> ApplyDefaults(c).PollInterval,
     MinTimeout |-> ApplyDefaults(c).MinPollInterval,
     PollInterval |-> 0]

\* Mutant: the poll interval is passed as the timeout.
StateChangeConf_TimeoutIsPollInterval(c) ==
    [Pending |-> PendingStates,
     Target |-> TargetStates,
     Timeout |-> ApplyDefaults(c).PollInterval,
     Delay |-> ApplyDefaults(c).PollInterval,
     MinTimeout |-> ApplyDefaults(c).MinPollInterval,
     PollInterval |-> 0]

\* WaitForReady, the retry.StateChangeConf literal: PollInterval becomes Delay
\* (the wait before the first refresh), MinPollInterval becomes MinTimeout
\* (the smallest wait between refreshes); StateChangeConf.PollInterval stays 0.
StateChangeConf(c) ==
    [Pending |-> PendingStates,
     Target |-> TargetStates,
     Timeout |-> ApplyDefaults(c).Timeout,
     Delay |-> ApplyDefaults(c).PollInterval,
     MinTimeout |-> ApplyDefaults(c).MinPollInterval,
     PollInterval |-> 0]

\* WaitForStateContext: the wait before the next refresh (exponential
\* backoff bounded by MinTimeout and 10 s, unless PollInterval is set).
NextWait(w, sc) ==
    IF sc.PollInterval > 0 /\ sc.PollInterval < 180000
    THEN sc.PollInterval
    ELSE IF 2 * w < sc.MinTimeout THEN sc.MinTimeout
         ELSE IF 2 * w > MaxBackoff THEN MaxBackoff
         ELSE 2 * w

(* ---------------- instanceStateRefreshFunc ---------------- *)

\* Status.IpAddress as reported to the seq-th Get of a wait (0: in the
\* response of Create or Update, and to a Read): it may differ each time.
IpAddresses ==
    << "10.0.0.1", "10.0.0.2", "10.0.0.3", "10.0.0.4", "10.0.0.5", "10.0.0.6",
       "10.0.0.7", "10.0.0.8" >>

IpAt(seq) == IF seq = 0 THEN "10.0.0.0" ELSE IpAddresses[seq]

\* The object a Get answers with.
GetObject(id, answer, seq) ==
    [id |-> id,
     status |-> answer,
     ip |-> IF answer = "absent" THEN "" ELSE IpAt(seq),
     seq |-> seq]

\* Mutant: the FAILED state is returned like any other state, without error.
instanceStateRefreshFunc_FailedNoError(id, answer, seq) ==
    IF answer = "rpc_error"
    THEN [Result |-> NoObject, State |-> "",
          Error |-> Wrap("failed to get compute instance", Err("rpc", "")), Done |-> FALSE]
    ELSE IF answer = "absent"
    THEN [Result |-> GetObject(id, answer, seq), State |-> STATE_UNSPECIFIED,
          Error |-> NoError, Done |-> FALSE]
    ELSE [Result |-> GetObject(id, answer, seq), State |-> answer,
          Error |-> NoError, Done |-> FALSE]

\* Mutant: an object without status is reported as an error.
instanceStateRefreshFunc_NilStatusError(id, answer, seq) ==
    IF answer = "rpc_error"
    THEN [Result |-> NoObject, State |-> "",
          Error |-> Wrap("failed to get compute instance", Err("rpc", "")), Done |-> FALSE]
    ELSE IF answer = "absent"
    THEN [Result |-> NoObject, State |-> "",
          Error |-> Err("compute instance has no status", ""), Done |-> FALSE]
    ELSE IF answer = STATE_FAILED
    THEN [Result |-> NoObject, State |-> STATE_FAILED,
          Error |-> Err("compute instance reached FAILED state", ""), Done |-> FALSE]
    ELSE [Result |-> GetObject(id, answer, seq), State |-> answer,
          Error |-> NoError, Done |-> FALSE]

\* Mutant: a state the client does not know is reported as UNSPECIFIED.
instanceStateRefreshFunc_UnknownAsUnspecified(id, answer, seq) ==
    IF answer = "rpc_error"
    THEN [Result |-> NoObject, State |-> "",
          Error |-> Wrap("failed to get compute instance", Err("rpc", "")), Done |-> FALSE]
    ELSE IF answer = STATE_FAILED
    THEN [Result |-> NoObject, State |-> STATE_FAILED,
          Error |-> Err("compute instance reached FAILED state", ""), Done |-> FALSE]
    ELSE IF answer \in {STATE_PROGRESSING, STATE_READY}
    THEN [Result |-> GetObject(id, answer, seq), State |-> answer,
          Error |-> NoError, Done |-> FALSE]
    ELSE [Result |-> GetObject(id, answer, seq), State |-> STATE_UNSPECIFIED,
          Error |-> NoError, Done |-> FALSE]

\* instanceStateRefreshFunc: (object, state label, error) for a Get answer.
instanceStateRefreshFunc(id, answer, seq) ==
    IF answer = "rpc_error"
    THEN [Result |-> NoObject, State |-> "",
          Error |-> Wrap("failed to get compute instance", Err("rpc", "")), Done |-> FALSE]
    ELSE IF answer = "absent"
    THEN [Result |-> GetObject(id, answer, seq), State |-> STATE_UNSPECIFIED,
          Error |-> NoError, Done |-> FALSE]
    ELSE IF answer = STATE_FAILED
    THEN [Result |-> NoObject, State |-> STATE_FAILED,
          Error |-> Err("compute instance reached FAILED state", ""), Done |-> FALSE]
    ELSE [Result |-> GetObject(id, answer, seq), State |-> answer,
          Error |-> NoError, Done |-> FALSE]

(* ---------------- the operations' start ---------------- *)

\* data.TemplateParameters: a null map, an unknown map, or a map from names
\* to elements.  An element is a string (its bytes), null or unknown.
Elem(str) == [null |-> FALSE, unknown |-> FALSE, value |-> str]

ElemNull == [null |-> TRUE, unknown |-> FALSE, value |-> << >>]

ElemUnknown == [null |-> FALSE, unknown |-> TRUE, value |-> << >>]

NullMap == [null |-> TRUE, unknown |-> FALSE, elems |-> << >>]

UnknownMap == [null |-> FALSE, unknown |-> TRUE, elems |-> << >>]

MapOf(elems) == [null |-> FALSE, unknown |-> FALSE, elems |-> elems]

\* The maps Create and Update are given: null, empty, {"key": "a"}, and
\* {"key": "a", "k2": unknown}.
TemplateParameterChoices ==
    {NullMap,
     MapOf(<< >>),
     MapOf([n \in {"key"} |-> Elem(<< 97 >>)]),
     MapOf([n \in {"key", "k2"} |-> IF n = "key" THEN Elem(<< 97 >>) ELSE ElemUnknown])}

\* anypb.New names the wrapped message by its type URL.
StringValueTypeURL == "type.googleapis.com/google.protobuf.StringValue"

\* proto.Marshal of wrapperspb.String(str): nothing for the empty string (a
\* proto3 default is not written), else the tag of field 1 with wire type 2,
\* the length, and the bytes.
MarshalStringValue(str) == IF str = << >> THEN << >> ELSE << 10, Len(str) >> \o str

\* anypb.New(wrapperspb.String(str))
AnyOfString(str) == [type_url |-> StringValueTypeURL, value |-> MarshalStringValue(str)]

\* tfMap.ElementsAs(ctx, &stringMap, false): no null or unknown element may
\* be put into a Go string.
ElementsAsFails(tfMap) ==
    \E n \in DOMAIN tfMap.elems : tfMap.elems[n].null \/ tfMap.elems[n].unknown

\* Mutant: a parameter whose value is the empty string is left out.
convertTemplateParameters_SkipsEmptyValues(tfMap) ==
    IF tfMap.null \/ tfMap.unknown
    THEN [params |-> << >>, err |-> NoError]
    ELSE IF ElementsAsFails(tfMap)
    THEN [params |-> << >>, err |-> Err("failed to extract template parameters", "")]
    ELSE [params |-> [n \in {m \in DOMAIN tfMap.elems : tfMap.elems[m].value # << >>} |->
                         AnyOfString(tfMap.elems[n].value)],
          err |-> NoError]

\* Mutant: a null map is an error.
convertTemplateParameters_NullIsError(tfMap) ==
    IF tfMap.null \/ tfMap.unknown \/ ElementsAsFails(tfMap)
    THEN [params |-> << >>, err |-> Err("failed to extract template parameters", "")]
    ELSE [params |-> [n \in DOMAIN tfMap.elems |-> AnyOfString(tfMap.elems[n].value)],
          err |-> NoError]

\* convertTemplateParameters: nil for a null or unknown map; an error when the
\* elements cannot be extracted as strings; else one Any(StringValue) each.
convertTemplateParameters(tfMap) ==
    IF tfMap.null \/ tfMap.unknown
    THEN [params |-> << >>, err |-> NoError]
    ELSE IF ElementsAsFails(tfMap)
    THEN [params |-> << >>, err |-> Err("failed to extract template parameters", "")]
    ELSE [params |-> [n \in DOMAIN tfMap.elems |-> AnyOfString(tfMap.elems[n].value)],
          err |-> NoError]

\* The names and the strings of the maps the codec is tried on: "", "a", "b"
\* and "ab" as bytes.
ParamNames == {"key", "k2"}

ParamStrings == {<< >>, << 97 >>, << 98 >>, << 97, 98 >>}

\* Every map over those names whose elements are strings, null or unknown,
\* and the null and the unknown map.
ParamMaps ==
    {NullMap, UnknownMap} \cup
    {MapOf(elems) :
        elems \in UNION {[names -> {Elem(str) : str \in ParamStrings}
                                       \cup {ElemNull, ElemUnknown}] :
                            names \in SUBSET ParamNames}}

\* Unwrapping the payload of an envelope as a StringValue: no bytes are the
\* empty string; else field 1 with its length and its bytes.
UnmarshalStringValue(bytes) ==
    IF bytes = << >>
    THEN [value |-> << >>, ok |-> TRUE]
    ELSE IF Len(bytes) >= 2 /\ bytes[1] = 10 /\ bytes[2] = Len(bytes) - 2
    THEN [value |-> SubSeq(bytes, 3, Len(bytes)), ok |-> TRUE]
    ELSE [value |-> << >>, ok |-> FALSE]

\* decode: fails when an envelope's type tag is not the scalar string's or its
\* payload cannot be unwrapped; else the string of every name.
decodeTemplateParameters(envelopes) ==
    IF \E n \in DOMAIN envelopes :
           \/ envelopes[n].type_url # StringValueTypeURL
           \/ ~UnmarshalStringValue(envelopes[n].value).ok
    THEN [params |-> << >>, err |-> Err("DecodingError", "")]
    ELSE [params |-> [n \in DOMAIN envelopes |->
                         UnmarshalStringValue(envelopes[n].value).value],
          err |-> NoError]

\* What an earlier apply recorded for a compute instance: req.State of Update.
PriorStates == {[ID |-> id, State |-> STATE_READY, IPAddress |-> "10.0.0.1"] : id \in Ids}

\* The codec has not been applied.
NotEncoded == [params |-> << >>, err |-> NoError]

\* A handler that has no plan, sends no object, or got no object back.
NoPlan == [none |-> TRUE]

NoRequest == [id |-> "", spec |-> [present |-> FALSE]]

\* req.Plan as read by the handler, the object of its Create / Update call,
\* and the object that call or its Get returned.
Exchange(p, rq, rs) ==
    /\ plan' = p
    /\ request' = rq
    /\ response' = rs

\* The object sent with a Create (id empty) or an Update call.
RequestOf(id, spec) == [id |-> id, spec |-> spec]

\* The object the remote Create or Update of a compute instance answers with:
\* the instance with its id, not yet ready.
CreatedObject(id) == GetObject(id, STATE_PROGRESSING, 0)

\* One remote call as the service sees it.
Rpc(method, k, id) == [rpc |-> method, kind |-> k, id |-> id]

\* Mutant: the polls ask for the id of the prior state, not of the response.
StartWait_PollsPriorId(o, prior, calls, id, c) ==
    /\ op' = o
    /\ resourceKind' = "compute_instance"
    /\ priorState' = prior
    /\ tfState' = prior
    /\ rpcLog' = calls
    /\ instanceID' = prior.ID
    /\ config' = c
    /\ conf' = StateChangeConf(c)
    /\ pc' = "wait"
    /\ g' = "delay"
    /\ gTimer' = now + StateChangeConf(c).Delay
    /\ deadline' = now + StateChangeConf(c).Timeout
    /\ sleepLog' = IF StateChangeConf(c).Delay > 0
                   THEN << [dur |-> StateChangeConf(c).Delay, after |-> 0] >>
                   ELSE << >>
    /\ UNCHANGED << now, wait, result, lastResult, resCh, resClosed, cancelCh, ctxDone,
                    callStart, callCtxDone, refreshCalls, refreshLog, cancelLog, outcome,
                    returnedAt, callsAtReturn, sleepsAtReturn, diags, rpcErr, firstRun,
                    providerData, codecVars >>

\* The caller enters WaitForStateContext: the goroutine starts with its
\* Delay timer, the caller arms the timeout.
StartWait(o, prior, calls, id, c) ==
    /\ op' = o
    /\ resourceKind' = "compute_instance"
    /\ priorState' = prior
    /\ tfState' = prior
    /\ rpcLog' = calls
    /\ instanceID' = id
    /\ config' = c
    /\ conf' = StateChangeConf(c)
    /\ pc' = "wait"
    /\ g' = "delay"
    /\ gTimer' = now + StateChangeConf(c).Delay
    /\ deadline' = now + StateChangeConf(c).Timeout
    /\ sleepLog' = IF StateChangeConf(c).Delay > 0
                   THEN << [dur |-> StateChangeConf(c).Delay, after |-> 0] >>
                   ELSE << >>
    /\ UNCHANGED << now, wait, result, lastResult, resCh, resClosed, cancelCh, ctxDone,
                    callStart, callCtxDone, refreshCalls, refreshLog, cancelLog, outcome,
                    returnedAt, callsAtReturn, sleepsAtReturn, diags, rpcErr, firstRun,
                    providerData, codecVars >>

\* A handler that returns without waiting: after the remote calls `calls`, with
\* the error rerr of its remote call, the diagnostics d and the state st.
HandlerReturns(o, k, prior, calls, rerr, d, st) ==
    /\ op' = o
    /\ resourceKind' = k
    /\ priorState' = prior
    /\ pc' = "returned"
    /\ rpcLog' = calls
    /\ rpcErr' = rerr
    /\ diags' = d
    /\ tfState' = st
    /\ returnedAt' = now
    /\ callsAtReturn' = refreshCalls
    /\ sleepsAtReturn' = Len(sleepLog)
    /\ UNCHANGED << instanceID, config, conf, g, now, deadline, gTimer, wait, result,
                    lastResult, resCh, resClosed, cancelCh, ctxDone, callStart,
                    callCtxDone, refreshCalls, refreshLog, sleepLog, cancelLog, outcome,
                    firstRun, providerData, codecVars >>

Diag(summary, id, err) == << [summary |-> summary, id |-> id, err |-> err] >>

\* convertTemplateParameters failed: an error diagnostic, no remote call.
ConversionFailed(o, prior, err) ==
    HandlerReturns(o, "compute_instance", prior, << >>, NoError,
                   Diag("Failed to convert template parameters", "", err), prior)

\* Mutant: the failed call is issued a second time before giving up.
RemoteCallFailed_Retries(o, k, prior, id, summary) ==
    HandlerReturns(o, k, prior, << Rpc(o, k, id), Rpc(o, k, id) >>, Err("rpc", ""),
                   Diag(summary, "", Err("rpc", "")), prior)

\* The remote Create / Update call failed: an error diagnostic, no state.
RemoteCallFailed(o, k, prior, id, summary) ==
    HandlerReturns(o, k, prior, << Rpc(o, k, id) >>, Err("rpc", ""),
                   Diag(summary, "", Err("rpc", "")), prior)

\* ComputeInstanceResource.Create up to the call of WaitForReady.
Create ==
    /\ pc = "idle"
    /\ \E tfMap \in TemplateParameterChoices :
         LET d == [TemplateParameters |-> tfMap]
             templateParams == convertTemplateParameters(tfMap)
             instance == RequestOf("", [present |-> TRUE,
                                        template_parameters |-> templateParams.params])
         IN  IF templateParams.err # NoError
             THEN /\ ConversionFailed("Create", NoModel, templateParams.err)
                  /\ Exchange(d, NoRequest, NoObject)
             ELSE \/ /\ RemoteCallFailed("Create", "compute_instance", NoModel, "",
                                         "Failed to create compute instance")
                     /\ Exchange(d, instance, NoObject)
                  \/ \E id \in Ids :
                       /\ StartWait("Create", NoModel,
                                    << Rpc("Create", "compute_instance", "") >>,
                                    CreatedObject(id).id,
                                    [Timeout |-> DefaultCreateTimeout, PollInterval |-> 0,
                                     MinPollInterval |-> 0])
                       /\ Exchange(d, instance, CreatedObject(id))

\* ComputeInstanceResource.Update up to the call of WaitForReady.
Update ==
    /\ pc = "idle"
    /\ \E tfMap \in TemplateParameterChoices, prior \in PriorStates :
         LET d == [TemplateParameters |-> tfMap]
             templateParams == convertTemplateParameters(tfMap)
             instance == RequestOf(prior.ID, [present |-> TRUE,
                                              template_parameters |-> templateParams.params])
         IN  IF templateParams.err # NoError
             THEN /\ ConversionFailed("Update", prior, templateParams.err)
                  /\ Exchange(d, NoRequest, NoObject)
             ELSE \/ /\ RemoteCallFailed("Update", "compute_instance", prior, prior.ID,
                                         "Failed to update compute instance")
                     /\ Exchange(d, instance, NoObject)
                  \/ /\ StartWait("Update", prior,
                                  << Rpc("Update", "compute_instance", prior.ID) >>,
                                  CreatedObject(prior.ID).id,
                                  [Timeout |-> DefaultUpdateTimeout, PollInterval |-> 0,
                                   MinPollInterval |-> 0])
                     /\ Exchange(d, instance, CreatedObject(prior.ID))

\* WaitForReady called with any configuration and the instance refresh closure.
CallWaitForReady ==
    /\ pc = "idle"
    /\ \E id \in Ids, t \in TimeoutChoices, p \in PollIntervalChoices,
          m \in MinPollIntervalChoices :
            /\ StartWait("WaitForReady", NoModel, << >>, id,
                         [Timeout |-> t, PollInterval |-> p, MinPollInterval |-> m])
            /\ Exchange(NoPlan, NoRequest, NoObject)

(* ---------------- the operations' end ---------------- *)

\* updateModelFromComputeInstance: the fields recorded from the object.
updateModelFromComputeInstance(instance) ==
    [ID |-> instance.id,
     State |-> IF instance.status = "absent" THEN "null" ELSE instance.status,
     IPAddress |-> IF instance.status = "absent" THEN "null" ELSE instance.ip]

\* Mutant: the cause is formatted into the message instead of wrapped.
WaitForReadyError_NoWrap(err) == Err("failed to reach ready state", "")

\* "failed to reach ready state: %w"
WaitForReadyError(err) == Wrap("failed to reach ready state", err)

\* Mutant: the result is returned without looking at the error.
WaitForReadyResult_IgnoresError(res, err) ==
    [kind |-> "success", obj |-> res, err |-> NoError]

\* WaitForReady's return values for what WaitForStateContext returned.
WaitForReadyResult(res, err) ==
    IF err # NoError
    THEN [kind |-> "error", obj |-> NoObject, err |-> WaitForReadyError(err)]
    ELSE [kind |-> "success", obj |-> res, err |-> NoError]

WaitSummary(kind) ==
    IF kind = "Create" THEN "Error waiting for compute instance to be ready"
    ELSE "Error waiting for compute instance to be ready after update"

\* Mutant: a failed wait records the id of the instance it waited for.
Return_RecordsIdOnError(res, err) ==
    /\ pc' = "returned"
    /\ returnedAt' = now
    /\ callsAtReturn' = refreshCalls
    /\ sleepsAtReturn' = Len(sleepLog)
    /\ outcome' = WaitForReadyResult(res, err)
    /\ rpcErr' = rpcErr
    /\ IF op = "WaitForReady"
       THEN UNCHANGED << tfState, diags >>
       ELSE IF WaitForReadyResult(res, err).kind = "error"
       THEN /\ diags' = Append(diags, [summary |-> WaitSummary(op), id |-> instanceID,
                                        err |-> WaitForReadyResult(res, err).err])
            /\ tfState' = [tfState EXCEPT !.ID = instanceID]
       ELSE /\ tfState' = updateModelFromComputeInstance(WaitForReadyResult(res, err).obj)
            /\ UNCHANGED diags

\* Mutant: the object of the Create / Update response is recorded.
Return_RecordsResponse(res, err) ==
    /\ pc' = "returned"
    /\ returnedAt' = now
    /\ callsAtReturn' = refreshCalls
    /\ sleepsAtReturn' = Len(sleepLog)
    /\ outcome' = WaitForReadyResult(res, err)
    /\ rpcErr' = rpcErr
    /\ IF op = "WaitForReady"
       THEN UNCHANGED << tfState, diags >>
       ELSE IF WaitForReadyResult(res, err).kind = "error"
       THEN /\ diags' = Append(diags, [summary |-> WaitSummary(op), id |-> instanceID,
                                        err |-> WaitForReadyResult(res, err).err])
            /\ UNCHANGED tfState
       ELSE /\ tfState' = updateModelFromComputeInstance(response)
            /\ UNCHANGED diags

\* WaitForStateContext returns (res, err); WaitForReady wraps the error; Create
\* and Update report it with the instance id, or record the final object.
Return(res, err) ==
    /\ pc' = "returned"
    /\ returnedAt' = now
    /\ callsAtReturn' = refreshCalls
    /\ sleepsAtReturn' = Len(sleepLog)
    /\ outcome' = WaitForReadyResult(res, err)
    /\ rpcErr' = rpcErr
    /\ IF op = "WaitForReady"
       THEN UNCHANGED << tfState, diags >>
       ELSE IF WaitForReadyResult(res, err).kind = "error"
       THEN /\ diags' = Append(diags, [summary |-> WaitSummary(op), id |-> instanceID,
                                        err |-> WaitForReadyResult(res, err).err])
            /\ UNCHANGED tfState
       ELSE /\ tfState' = updateModelFromComputeInstance(WaitForReadyResult(res, err).obj)
            /\ UNCHANGED diags

\* &TimeoutError{LastError, LastState, Timeout, ExpectedState}
TimeoutError(last) == Err("Timeout", last.State) \o last.Error

(* ---------------- the handlers that make one remote call ---------------- *)

ResourceKinds == {"compute_instance", "cluster", "host", "host_pool"}

DataSourceKinds == ResourceKinds \cup {"host_class", "compute_instance_template"}

\* Status.State.String() of the other kinds.
ClusterStates == {"CLUSTER_STATE_PROGRESSING", "CLUSTER_STATE_READY", "CLUSTER_STATE_FAILED"}

HostStates == {"HOST_STATE_PROGRESSING", "HOST_STATE_READY", "HOST_STATE_FAILED"}

HostPoolStates ==
    {"HOST_POOL_STATE_PROGRESSING", "HOST_POOL_STATE_READY", "HOST_POOL_STATE_FAILED"}

KindStates(k) ==
    CASE k = "compute_instance" -> StatusStates
      [] k = "cluster" -> ClusterStates
      [] k = "host" -> HostStates
      [] k = "host_pool" -> HostPoolStates
      [] OTHER -> {}

\* What the remote answers to the handler's call: an error, or the object,
\* without status or with one of the kind's states.
RemoteAnswers(k) == {"rpc_error", "absent"} \cup KindStates(k)

\* NodeSetModel / HostSetModel: one element of node_sets or host_sets.
NodeSetModel(hostClass, size) == [HostClass |-> hostClass, Size |-> size]

\* data.NodeSets / data.HostSets as planned or recorded: null, unknown (the
\* attribute is optional and computed), empty, one set, two sets.
NodeSetChoices ==
    {NullMap,
     UnknownMap,
     MapOf(<< >>),
     MapOf([n \in {"workers"} |-> NodeSetModel("hc1", 3)]),
     MapOf([n \in {"workers", "infra"} |->
               IF n = "workers" THEN NodeSetModel("hc1", 2) ELSE NodeSetModel("hc2", 1)])}

\* data.PowerState as planned or recorded: null or a string.
PowerStateChoices ==
    {"null", "ON", "OFF", "HOST_POWER_STATE_ON", "HOST_POWER_STATE_OFF", "on"}

\* parsePowerState
parsePowerState(str) ==
    CASE str \in {"HOST_POWER_STATE_ON", "ON"} -> "HOST_POWER_STATE_ON"
      [] str \in {"HOST_POWER_STATE_OFF", "OFF"} -> "HOST_POWER_STATE_OFF"
      [] OTHER -> "HOST_POWER_STATE_UNSPECIFIED"

\* Create and Update, "Build node sets if provided": one ClusterNodeSet or
\* HostPoolHostSet for each declared set; nothing for a null or unknown map.
specNodeSets(nodeSets) ==
    IF nodeSets.null \/ nodeSets.unknown
    THEN << >>
    ELSE [n \in DOMAIN nodeSets.elems |->
             [host_class |-> nodeSets.elems[n].HostClass,
              size |-> nodeSets.elems[n].Size]]

\* updateModelFrom..., "Convert node sets": the sets of the remote object as
\* the map of the model.
modelNodeSets(sets) ==
    MapOf([n \in DOMAIN sets |-> NodeSetModel(sets[n].host_class, sets[n].size)])

\* The declared fields a plan of kind k can carry.
DeclaredChoices(k) ==
    CASE k = "compute_instance" ->
           {[TemplateParameters |-> tp] : tp \in TemplateParameterChoices}
      [] k = "cluster" ->
           {[TemplateParameters |-> tp, NodeSets |-> ns] :
                tp \in {NullMap, MapOf([n \in {"key"} |-> Elem(<< 97 >>)])},
                ns \in NodeSetChoices}
      [] k = "host" -> {[PowerState |-> ps] : ps \in PowerStateChoices}
      [] k = "host_pool" -> {[HostSets |-> hs] : hs \in NodeSetChoices}

\* A remote object without Spec.
NoSpec(k) ==
    CASE k = "cluster" -> [present |-> FALSE, template_parameters |-> << >>,
                           node_sets |-> << >>]
      [] k = "host" -> [present |-> FALSE, power_state |-> "HOST_POWER_STATE_UNSPECIFIED"]
      [] k = "host_pool" -> [present |-> FALSE, host_sets |-> << >>]

\* Mutant: Update sends only the sets that the recorded state does not have.
buildSpec_DiffAgainstPrior(k, d, prior) ==
    CASE k = "cluster" ->
           [present |-> TRUE, template_parameters |-> << >>,
            node_sets |-> IF d.NodeSets = prior.NodeSets THEN << >>
                          ELSE specNodeSets(d.NodeSets)]
      [] k = "host" -> [present |-> TRUE,
                        power_state |-> IF d.PowerState = "null"
                                        THEN "HOST_POWER_STATE_UNSPECIFIED"
                                        ELSE parsePowerState(d.PowerState)]
      [] k = "host_pool" ->
           [present |-> TRUE,
            host_sets |-> IF d.HostSets = prior.HostSets THEN << >>
                          ELSE specNodeSets(d.HostSets)]

\* The Spec that Create and Update of kind k build from the planned fields d
\* (prior is req.State, which they do not read).  ClusterSpec is given the
\* template and the node sets only.
buildSpec(k, d, prior) ==
    CASE k = "cluster" ->
           [present |-> TRUE, template_parameters |-> << >>,
            node_sets |-> specNodeSets(d.NodeSets)]
      [] k = "host" -> [present |-> TRUE,
                        power_state |-> IF d.PowerState = "null"
                                        THEN "HOST_POWER_STATE_UNSPECIFIED"
                                        ELSE parsePowerState(d.PowerState)]
      [] k = "host_pool" ->
           [present |-> TRUE, host_sets |-> specNodeSets(d.HostSets)]

\* The Spec a remote object of kind k can carry when it is read.
RemoteSpecs(k) ==
    CASE k = "cluster" ->
           {NoSpec(k)} \cup
           {[present |-> TRUE, template_parameters |-> << >>, node_sets |-> specNodeSets(ns)] :
                ns \in {MapOf(<< >>), MapOf([n \in {"workers"} |-> NodeSetModel("hc1", 3)])}}
      [] k = "host" ->
           {NoSpec(k)} \cup
           {[present |-> TRUE, power_state |-> ps] :
                ps \in {"HOST_POWER_STATE_UNSPECIFIED", "HOST_POWER_STATE_ON",
                        "HOST_POWER_STATE_OFF"}}
      [] k = "host_pool" ->
           {NoSpec(k)} \cup
           {[present |-> TRUE, host_sets |-> specNodeSets(hs)] :
                hs \in {MapOf(<< >>), MapOf([n \in {"workers"} |-> NodeSetModel("hc1", 3)])}}

\* The object a remote call on a cluster, a host or a host pool answers with.
RemoteObject(id, answer, spec) == [id |-> id, status |-> answer, spec |-> spec]

\* updateModelFromCluster: the node sets are set when the object has some, the
\* status fields only when Status is there.
updateModelFromCluster(data, cluster) ==
    [ID |-> cluster.id,
     NodeSets |-> IF cluster.spec.present /\ DOMAIN cluster.spec.node_sets # {}
                  THEN modelNodeSets(cluster.spec.node_sets)
                  ELSE data.NodeSets,
     State |-> IF cluster.status = "absent" THEN data.State ELSE cluster.status,
     ApiURL |-> IF cluster.status = "absent" THEN data.ApiURL ELSE "https://api",
     ConsoleURL |-> IF cluster.status = "absent" THEN data.ConsoleURL ELSE "https://console"]

\* updateModelFromHost: the power state is the name of the enum value of Spec.
updateModelFromHost(data, host) ==
    [ID |-> host.id,
     PowerState |-> IF host.spec.present THEN host.spec.power_state ELSE data.PowerState,
     State |-> IF host.status = "absent" THEN data.State ELSE host.status,
     CurrentPowerState |->
         IF host.status = "absent" THEN data.CurrentPowerState ELSE "HOST_POWER_STATE_ON"]

\* updateModelFromHostPool
updateModelFromHostPool(data, hostPool) ==
    [ID |-> hostPool.id,
     HostSets |-> IF hostPool.spec.present /\ DOMAIN hostPool.spec.host_sets # {}
                  THEN modelNodeSets(hostPool.spec.host_sets)
                  ELSE data.HostSets,
     State |-> IF hostPool.status = "absent" THEN data.State ELSE hostPool.status,
     Hosts |-> IF hostPool.status = "absent" THEN data.Hosts ELSE MapOf(<< "h1" >>)]

\* The model a handler of kind k records for the remote object obj.
updateModel(k, data, obj) ==
    CASE k = "compute_instance" -> updateModelFromComputeInstance(obj)
      [] k = "cluster" -> updateModelFromCluster(data, obj)
      [] k = "host" -> updateModelFromHost(data, obj)
      [] k = "host_pool" -> updateModelFromHostPool(data, obj)
      [] OTHER -> [ID |-> obj.id]

\* model.Hosts, a list value: null, unknown, or the host an earlier apply saw.
HostList(v) ==
    CASE v = "null" -> NullMap
      [] v = "unknown" -> UnknownMap
      [] OTHER -> MapOf(<< "h0" >>)

\* A model of kind k with the id, the declared fields d and the same value v
\* in its computed fields.
ModelOf(k, id, v, d) ==
    CASE k = "compute_instance" -> [ID |-> id, State |-> v, IPAddress |-> v]
      [] k = "cluster" -> [ID |-> id, NodeSets |-> d.NodeSets, State |-> v, ApiURL |-> v,
                           ConsoleURL |-> v]
      [] k = "host" -> [ID |-> id, PowerState |-> d.PowerState, State |-> v,
                        CurrentPowerState |-> v]
      [] k = "host_pool" -> [ID |-> id, HostSets |-> d.HostSets, State |-> v,
                             Hosts |-> HostList(v)]
      [] OTHER -> [ID |-> id]

\* req.Plan of Create (computed fields unknown) and of Update (the id is kept
\* by UseStateForUnknown).
PlanOf(k, id, d) == ModelOf(k, id, "unknown", d)

\* The declared fields of what an earlier apply or import recorded.
RecordedChoices(k) ==
    CASE k = "cluster" ->
           {[NodeSets |-> ns] :
                ns \in {NullMap, MapOf([n \in {"workers"} |-> NodeSetModel("hc1", 3)])}}
      [] k = "host" -> {[PowerState |-> ps] : ps \in {"ON", "HOST_POWER_STATE_OFF"}}
      [] k = "host_pool" ->
           {[HostSets |-> hs] :
                hs \in {NullMap, MapOf([n \in {"workers"} |-> NodeSetModel("hc1", 3)])}}
      [] OTHER -> {[none |-> TRUE]}

\* req.State of Read, Update, Delete: what an earlier apply recorded.
PriorOf(k) ==
    IF k = "compute_instance" THEN PriorStates
    ELSE {ModelOf(k, id, "recorded", d) : id \in Ids, d \in RecordedChoices(k)}

\* The fields of a data source, or of a resource not yet created: all null.
NullDeclared ==
    [TemplateParameters |-> NullMap, NodeSets |-> NullMap, HostSets |-> NullMap,
     PowerState |-> "null"]

\* resp.State of a Create and of a data source Read before the handler runs.
NullModel(k) ==
    IF k = "compute_instance" THEN NoModel ELSE ModelOf(k, "", "null", NullDeclared)

\* The remote object a Read of kind k is answered with.
ReadObjects(k, id, answer) ==
    IF k \in {"cluster", "host", "host_pool"}
    THEN {RemoteObject(id, answer, spec) : spec \in RemoteSpecs(k)}
    ELSE {GetObject(id, answer, 0)}

CreateSummary(k) ==
    CASE k = "cluster" -> "Failed to create cluster"
      [] k = "host" -> "Failed to create host"
      [] k = "host_pool" -> "Failed to create host pool"

UpdateSummary(k) ==
    CASE k = "cluster" -> "Failed to update cluster"
      [] k = "host" -> "Failed to update host"
      [] k = "host_pool" -> "Failed to update host pool"

\* Mutant: the created object is fetched once more before it is recorded.
CreateAndRecord_ThenGet(k) ==
    /\ pc = "idle"
    /\ \E answer \in RemoteAnswers(k), id \in Ids, d \in DeclaredChoices(k),
          echo \in BOOLEAN :
         LET spec == buildSpec(k, d, NullModel(k))
             obj == RemoteObject(id, answer, IF echo THEN spec ELSE NoSpec(k))
         IN  IF answer = "rpc_error"
             THEN /\ RemoteCallFailed("Create", k, NullModel(k), "", CreateSummary(k))
                  /\ Exchange(d, RequestOf("", spec), NoObject)
             ELSE /\ HandlerReturns("Create", k, NullModel(k),
                                    << Rpc("Create", k, ""), Rpc("Get", k, id) >>,
                                    NoError, << >>,
                                    updateModel(k, PlanOf(k, "unknown", d), obj))
                  /\ Exchange(d, RequestOf("", spec), obj)

\* Create of a cluster, a host or a host pool: the remote Create call, then the
\* state is set from the object in the response.
CreateAndRecord(k) ==
    /\ pc = "idle"
    /\ \E answer \in RemoteAnswers(k), id \in Ids, d \in DeclaredChoices(k),
          echo \in BOOLEAN :
         LET spec == buildSpec(k, d, NullModel(k))
             obj == RemoteObject(id, answer, IF echo THEN spec ELSE NoSpec(k))
         IN  IF answer = "rpc_error"
             THEN /\ RemoteCallFailed("Create", k, NullModel(k), "", CreateSummary(k))
                  /\ Exchange(d, RequestOf("", spec), NoObject)
             ELSE /\ HandlerReturns("Create", k, NullModel(k), << Rpc("Create", k, "") >>,
                                    NoError, << >>,
                                    updateModel(k, PlanOf(k, "unknown", d), obj))
                  /\ Exchange(d, RequestOf("", spec), obj)

ClusterCreate == CreateAndRecord("cluster")

HostCreate == CreateAndRecord("host")

HostPoolCreate == CreateAndRecord("host_pool")

\* Update of a cluster, a host or a host pool: the remote Update call, then
\* the state is set from the object in the response.
UpdateAndRecord(k) ==
    /\ pc = "idle"
    /\ \E answer \in RemoteAnswers(k), prior \in PriorOf(k), d \in DeclaredChoices(k),
          echo \in BOOLEAN :
         LET spec == buildSpec(k, d, prior)
             obj == RemoteObject(prior.ID, answer, IF echo THEN spec ELSE NoSpec(k))
         IN  IF answer = "rpc_error"
             THEN /\ RemoteCallFailed("Update", k, prior, prior.ID, UpdateSummary(k))
                  /\ Exchange(d, RequestOf(prior.ID, spec), NoObject)
             ELSE /\ HandlerReturns("Update", k, prior, << Rpc("Update", k, prior.ID) >>,
                                    NoError, << >>,
                                    updateModel(k, PlanOf(k, prior.ID, d), obj))
                  /\ Exchange(d, RequestOf(prior.ID, spec), obj)

ClusterUpdate == UpdateAndRecord("cluster")

HostUpdate == UpdateAndRecord("host")

HostPoolUpdate == UpdateAndRecord("host_pool")

ReadSummary(k) ==
    CASE k = "compute_instance" -> "Failed to read compute instance"
      [] k = "cluster" -> "Failed to read cluster"
      [] k = "host" -> "Failed to read host"
      [] k = "host_pool" -> "Failed to read host pool"
      [] k = "host_class" -> "Failed to read host class"
      [] k = "compute_instance_template" -> "Failed to read compute instance template"

DeleteSummary(k) ==
    CASE k = "compute_instance" -> "Failed to delete compute instance"
      [] k = "cluster" -> "Failed to delete cluster"
      [] k = "host" -> "Failed to delete host"
      [] k = "host_pool" -> "Failed to delete host pool"

\* Mutant: the object is fetched a second time.
ReadCalls_Twice(k, id) == << Rpc("Get", k, id), Rpc("Get", k, id) >>

\* The remote calls a Read handler issues for the id.
ReadCalls(k, id) == << Rpc("Get", k, id) >>

\* Read of a resource: one Get for the recorded id, then the state is set from
\* the object, whatever its status.
ReadAndRecord(k) ==
    /\ pc = "idle"
    /\ \E answer \in RemoteAnswers(k), prior \in PriorOf(k) :
         IF answer = "rpc_error"
         THEN /\ HandlerReturns("Read", k, prior, ReadCalls(k, prior.ID),
                                Err("rpc", ""),
                                Diag(ReadSummary(k), "", Err("rpc", "")),
                                prior)
              /\ Exchange(NoPlan, NoRequest, NoObject)
         ELSE \E obj \in ReadObjects(k, prior.ID, answer) :
                /\ HandlerReturns("Read", k, prior, ReadCalls(k, prior.ID), NoError,
                                  << >>, updateModel(k, prior, obj))
                /\ Exchange(NoPlan, NoRequest, obj)

Read == \E k \in ResourceKinds : ReadAndRecord(k)

\* What Read of a data source of kind k records for the object it got: the
\* configuration's id, and the status fields when the object has a Status.
dataSourceModel(k, obj) ==
    CASE k = "compute_instance" ->
           [ID |-> obj.id,
            State |-> IF obj.status = "absent" THEN "null" ELSE obj.status,
            IPAddress |-> IF obj.status = "absent" THEN "null" ELSE obj.ip]
      [] k = "cluster" ->
           [ID |-> obj.id,
            State |-> IF obj.status = "absent" THEN "null" ELSE obj.status,
            ApiURL |-> IF obj.status = "absent" THEN "null" ELSE "https://api",
            ConsoleURL |-> IF obj.status = "absent" THEN "null" ELSE "https://console"]
      [] k = "host" ->
           [ID |-> obj.id,
            State |-> IF obj.status = "absent" THEN "null" ELSE obj.status,
            PowerState |-> IF obj.status = "absent" THEN "null" ELSE "HOST_POWER_STATE_ON"]
      [] k = "host_pool" ->
           [ID |-> obj.id,
            State |-> IF obj.status = "absent" THEN "null" ELSE obj.status,
            Hosts |-> IF obj.status = "absent" THEN NullMap ELSE MapOf(<< "h1" >>)]
      [] OTHER -> [ID |-> obj.id]

\* Read of a data source: one Get for the configured id.
DataSourceRead ==
    /\ pc = "idle"
    /\ \E k \in DataSourceKinds : \E answer \in RemoteAnswers(k), id \in Ids :
         IF answer = "rpc_error"
         THEN /\ HandlerReturns("DataSourceRead", k, NullModel(k), ReadCalls(k, id),
                                Err("rpc", ""),
                                Diag(ReadSummary(k), "", Err("rpc", "")),
                                NullModel(k))
              /\ Exchange(NoPlan, NoRequest, NoObject)
         ELSE \E obj \in ReadObjects(k, id, answer) :
                /\ HandlerReturns("DataSourceRead", k, NullModel(k), ReadCalls(k, id),
                                  NoError, << >>, dataSourceModel(k, obj))
                /\ Exchange(NoPlan, NoRequest, obj)

\* Mutant: the deleted object is fetched to see the deletion complete.
DeleteCalls_ThenGet(k, id) == << Rpc("Delete", k, id), Rpc("Get", k, id) >>

\* The remote calls a Delete handler issues for the recorded id.
DeleteCalls(k, id) == << Rpc("Delete", k, id) >>

\* Delete of a resource: one remote Delete for the recorded id; the handler
\* does not touch resp.State.
DeleteResource(k) ==
    /\ pc = "idle"
    /\ \E failed \in BOOLEAN, prior \in PriorOf(k) :
         /\ Exchange(NoPlan, NoRequest, NoObject)
         /\ IF failed
            THEN HandlerReturns("Delete", k, prior, DeleteCalls(k, prior.ID), Err("rpc", ""),
                                Diag(DeleteSummary(k), "", Err("rpc", "")),
                                prior)
            ELSE HandlerReturns("Delete", k, prior, DeleteCalls(k, prior.ID), NoError,
                                << >>, prior)

Delete == \E k \in ResourceKinds : DeleteResource(k)

(* ---------------- the provider's Configure ---------------- *)

\* A string attribute of the provider: null, empty, or set.
ProviderStrings == {"null", "", "set"}

\* OsacProviderModel: the attributes that select the authentication.
ProviderConfigs ==
    [Token : ProviderStrings, ClientID : ProviderStrings, ClientSecret : ProviderStrings,
     Issuer : ProviderStrings]

\* The builders of the token source and of the gRPC connection succeed or fail.
BuildOutcomes == {"ok", "token_source_error", "connection_error"}

NoProviderData == [Conn |-> FALSE, Clients |-> {}]

\* client.ProviderData with all service clients.
ProviderDataOf(conn) ==
    [Conn |-> conn,
     Clients |-> {"Clusters", "ClusterTemplates", "ComputeInstances",
                  "ComputeInstanceTemplates", "Hosts", "HostClasses", "HostPools"}]

IsSet(str) == str # "null" /\ str # ""

hasToken(c) == IsSet(c.Token)

\* Mutant: one of the three OAuth2 attributes is enough.
hasOAuth_AnyOfThree(c) == IsSet(c.ClientID) \/ IsSet(c.ClientSecret) \/ IsSet(c.Issuer)

hasOAuth(c) == IsSet(c.ClientID) /\ IsSet(c.ClientSecret) /\ IsSet(c.Issuer)

\* The diagnostics Configure ends with.
ConfigureDiags(c, build) ==
    IF hasToken(c) /\ hasOAuth(c)
    THEN Diag("Invalid authentication configuration", "", Err("config", ""))
    ELSE IF ~hasToken(c) /\ ~hasOAuth(c)
    THEN Diag("Missing authentication configuration", "", Err("config", ""))
    ELSE IF build = "token_source_error"
    THEN Diag(IF hasToken(c) THEN "Failed to create token source"
              ELSE "Failed to create OAuth token source", "", Err("build", ""))
    ELSE IF build = "connection_error"
    THEN Diag("Failed to create gRPC connection", "", Err("build", ""))
    ELSE << >>

\* OsacProvider.Configure: the authentication is validated, the token source
\* and the connection are built, and the service clients are handed to the
\* resources and data sources.
Configure ==
    /\ pc = "idle"
    /\ \E c \in ProviderConfigs, build \in BuildOutcomes :
         /\ op' = "Configure"
         /\ resourceKind' = "provider"
         /\ plan' = c
         /\ diags' = ConfigureDiags(c, build)
         /\ providerData' = IF ConfigureDiags(c, build) = << >>
                            THEN ProviderDataOf(TRUE)
                            ELSE NoProviderData
         /\ pc' = "returned"
         /\ returnedAt' = now
         /\ callsAtReturn' = refreshCalls
         /\ sleepsAtReturn' = Len(sleepLog)
         /\ UNCHANGED << priorState, firstRun, instanceID, config, conf, g, now, deadline,
                         gTimer, wait, result, lastResult, resCh, resClosed, cancelCh,
                         ctxDone, callStart, callCtxDone, refreshCalls, refreshLog, rpcLog,
                         cancelLog, rpcErr, sleepLog, outcome, tfState, request, response,
                         codecVars >>

(* ---------------- WaitForStateContext: the refresh goroutine ---------------- *)

CanDelayFire == g = "delay" /\ now >= gTimer

CanDelayCancel == g = "delay" /\ cancelCh

CanSend == g = "loop" /\ Len(resCh) < 1

CanSelectCancel == g = "select" /\ cancelCh

CanSelectFire == g = "select" /\ now >= gTimer

CanFinalSend == g = "final" /\ Len(resCh) < 1

\* select { case <-time.After(conf.Delay): ... }
GDelayFire ==
    /\ CanDelayFire
    /\ g' = "loop"
    /\ wait' = 0
    /\ UNCHANGED << callerVars, pc, now, deadline, gTimer, result, lastResult, resCh,
                    resClosed, cancelCh, ctxDone, callStart, callCtxDone, histVars, retVars >>

\* a closed cancelCh ends the goroutine; its deferred close(resCh) runs.
GExit ==
    /\ CanDelayCancel \/ CanSelectCancel
    /\ g' = "exit"
    /\ resClosed' = TRUE
    /\ UNCHANGED << callerVars, pc, now, deadline, gTimer, wait, result, lastResult, resCh,
                    cancelCh, ctxDone, callStart, callCtxDone, histVars, retVars >>

\* resCh <- result at the top of the loop, then the select on time.After(wait).
GSend ==
    /\ CanSend
    /\ resCh' = Append(resCh, result)
    /\ g' = "select"
    /\ gTimer' = now + wait
    /\ sleepLog' = IF wait > 0 /\ ~cancelCh
                   THEN Append(sleepLog, [dur |-> wait, after |-> Len(refreshLog)])
                   ELSE sleepLog
    /\ UNCHANGED << callerVars, pc, now, deadline, wait, result, lastResult, resClosed,
                    cancelCh, ctxDone, callStart, callCtxDone, refreshCalls, refreshLog,
                    rpcLog, cancelLog, retVars >>

\* the timer fired: "first round had no wait", then conf.Refresh() is called.
GSelectFire ==
    /\ CanSelectFire
    /\ wait' = IF wait = 0 THEN FirstBackoff ELSE wait
    /\ g' = "refresh"
    /\ callStart' = now
    /\ callCtxDone' = ctxDone
    /\ refreshCalls' = refreshCalls + 1
    /\ rpcLog' = Append(rpcLog, Rpc("Get", resourceKind, instanceID))
    /\ UNCHANGED << callerVars, pc, now, deadline, gTimer, result, lastResult, resCh,
                    resClosed, cancelCh, ctxDone, refreshLog, sleepLog, cancelLog, retVars >>

\* The goroutine's handling of what Refresh returned.
Classify(r, sc) ==
    IF r.Error # NoError THEN r
    ELSE IF r.State \in sc.Target THEN [r EXCEPT !.Done = TRUE]
    ELSE IF r.State \in sc.Pending THEN r
    ELSE IF sc.Pending # {}
    THEN [r EXCEPT !.Error = Err("UnexpectedState", r.State)]
    ELSE r

\* The answers the remote may give to the call in flight; in the replay of a
\* wait, the answer the same call was given in the first run.
AnswersNow ==
    IF callCtxDone THEN {"rpc_error"}
    ELSE IF firstRun.done /\ refreshCalls <= Len(firstRun.answers)
    THEN {firstRun.answers[refreshCalls]}
    ELSE IF refreshCalls >= MaxRefresh
    THEN GetAnswers \ {"absent", STATE_UNSPECIFIED, STATE_PROGRESSING}
    ELSE GetAnswers

\* conf.Refresh() returns and the goroutine classifies the result.
RefreshReturn ==
    /\ g = "refresh"
    /\ \E answer \in AnswersNow :
         LET raw == instanceStateRefreshFunc(instanceID, answer, refreshCalls)
             r == Classify(raw, conf)
         IN /\ result' = r
            /\ refreshLog' = Append(refreshLog, [answer |-> answer, raw |-> raw, r |-> r,
                                                  at |-> now,
                                                  live |-> pc \in {"wait", "grace"}])
            /\ IF r.Error # NoError \/ r.Done
               THEN g' = "final" /\ UNCHANGED wait
               ELSE g' = "loop" /\ wait' = NextWait(wait, conf)
    /\ UNCHANGED << callerVars, pc, now, deadline, gTimer, lastResult, resCh, resClosed,
                    cancelCh, ctxDone, callStart, callCtxDone, refreshCalls, sleepLog,
                    rpcLog, cancelLog, retVars >>

\* resCh <- result; return (an error, the target state or an unexpected state).
GFinalSend ==
    /\ CanFinalSend
    /\ resCh' = Append(resCh, result)
    /\ g' = "exit"
    /\ resClosed' = TRUE
    /\ UNCHANGED << callerVars, pc, now, deadline, gTimer, wait, result, lastResult,
                    cancelCh, ctxDone, callStart, callCtxDone, histVars, retVars >>

(* ---------------- WaitForStateContext: the caller's select loop ---------------- *)

CanRecv == pc \in {"wait", "grace"} /\ Len(resCh) > 0

\* Mutant: the closed channel is seen before the value it still buffers.
CanSeeClosed_IgnoresBuffer == pc \in {"wait", "grace"} /\ resClosed

CanSeeClosed == pc \in {"wait", "grace"} /\ Len(resCh) = 0 /\ resClosed

CanSeeCtxDone == pc \in {"wait", "grace"} /\ ctxDone

CanTimeout == pc \in {"wait", "grace"} /\ now >= deadline

\* case r, ok := <-resCh with a value.
MainRecv ==
    /\ pc = "wait"
    /\ CanRecv
    /\ resCh' = Tail(resCh)
    /\ IF Head(resCh).Done
       THEN /\ Return(Head(resCh).Result, Head(resCh).Error)
            /\ UNCHANGED lastResult
       ELSE /\ lastResult' = Head(resCh)
            /\ UNCHANGED << pc, retVars >>
    /\ UNCHANGED << callerVars, gVars, now, deadline, resClosed, cancelCh, ctxDone, histVars >>

\* case r, ok := <-resCh on the closed channel: "return the last result".
MainClosed ==
    /\ pc = "wait"
    /\ CanSeeClosed
    /\ Return(lastResult.Result, lastResult.Error)
    /\ UNCHANGED << callerVars, gVars, now, deadline, lastResult, resCh, resClosed, cancelCh,
                    ctxDone, histVars >>

\* Mutant: a cancelled context is reported like a timeout.
MainCtxDone_ReturnsTimeoutError ==
    /\ pc = "wait"
    /\ CanSeeCtxDone
    /\ cancelCh' = TRUE
    /\ Return(NoObject, TimeoutError(lastResult))
    /\ UNCHANGED << callerVars, gVars, now, deadline, lastResult, resCh, resClosed, ctxDone,
                    histVars >>

\* case <-ctx.Done(): close(cancelCh); return nil, ctx.Err()
MainCtxDone ==
    /\ pc = "wait"
    /\ CanSeeCtxDone
    /\ cancelCh' = TRUE
    /\ Return(NoObject, Err("context canceled", ""))
    /\ UNCHANGED << callerVars, gVars, now, deadline, lastResult, resCh, resClosed, ctxDone,
                    histVars >>

\* case <-timeout: close(cancelCh) and start the grace period.
MainTimeout ==
    /\ pc = "wait"
    /\ CanTimeout
    /\ cancelCh' = TRUE
    /\ pc' = "grace"
    /\ deadline' = now + refreshGracePeriod
    /\ UNCHANGED << callerVars, gVars, now, lastResult, resCh, resClosed, ctxDone, histVars,
                    retVars >>

\* grace period, case r, ok := <-resCh with a value.
GraceRecv ==
    /\ pc = "grace"
    /\ CanRecv
    /\ resCh' = Tail(resCh)
    /\ IF Head(resCh).Done
       THEN /\ Return(Head(resCh).Result, Head(resCh).Error)
            /\ UNCHANGED lastResult
       ELSE /\ lastResult' = Head(resCh)
            /\ UNCHANGED << pc, retVars >>
    /\ UNCHANGED << callerVars, gVars, now, deadline, resClosed, cancelCh, ctxDone, histVars >>

\* grace period over: the goroutine returned, the context was cancelled, or the
\* grace timer fired; all three end in the TimeoutError.
GraceEnd ==
    /\ pc = "grace"
    /\ CanSeeClosed \/ CanSeeCtxDone \/ CanTimeout
    /\ Return(NoObject, TimeoutError(lastResult))
    /\ UNCHANGED << callerVars, gVars, now, deadline, lastResult, resCh, resClosed, cancelCh,
                    ctxDone, histVars >>

(* ---------------- environment: context and clock ---------------- *)

\* The calling context is cancelled (a replay is given the context of the
\* first run, which was not cancelled).
Cancel ==
    /\ pc \in {"wait", "grace"}
    /\ ~ctxDone
    /\ ~firstRun.done
    /\ ctxDone' = TRUE
    /\ cancelLog' = [at |-> now, calls |-> refreshCalls, g |-> g]
    /\ UNCHANGED << callerVars, pc, gVars, now, deadline, lastResult, resCh, resClosed,
                    cancelCh, refreshCalls, refreshLog, sleepLog, rpcLog, retVars >>

\* A flow has a step to take without waiting for time to pass.
Urgent ==
    \/ CanDelayFire \/ CanDelayCancel \/ CanSend \/ CanSelectCancel \/ CanSelectFire
    \/ CanFinalSend \/ CanRecv \/ CanSeeClosed \/ CanSeeCtxDone \/ CanTimeout

\* The instants at which something can happen next.
Timers ==
    (IF g \in {"delay", "select"} THEN {gTimer} ELSE {})
    \cup (IF pc \in {"wait", "grace"} THEN {deadline} ELSE {})
    \cup (IF g = "refresh" /\ now < callStart + RefreshLatency
          THEN {callStart + RefreshLatency} ELSE {})

Earliest(S) == CHOOSE t \in S : \A u \in S : t <= u

\* Time passes up to the next instant at which something can happen.
Tick ==
    /\ ~Urgent
    /\ Timers # {}
    /\ now' = Earliest(Timers)
    /\ UNCHANGED << callerVars, pc, gVars, deadline, lastResult, resCh, resClosed, cancelCh,
                    ctxDone, histVars, retVars >>

(* ---------------- environment: a wait run a second time ---------------- *)

\* WaitForReady has returned, without its context being cancelled, and is
\* called again with the same configuration and a refresh function that
\* returns the same results in the same order; only the time the calls take
\* and the scheduling of the two flows are free.
Replay ==
    /\ pc = "returned"
    /\ op = "WaitForReady"
    /\ outcome.kind # "none"
    /\ ~ctxDone
    /\ ~firstRun.done
    /\ g = "exit"
    /\ firstRun' = [done |-> TRUE,
                    answers |-> [i \in 1..Len(refreshLog) |-> refreshLog[i].answer],
                    outcome |-> outcome,
                    calls |-> callsAtReturn,
                    timedOut |-> deadline # ApplyDefaults(config).Timeout]
    /\ pc' = "wait"
    /\ g' = "delay"
    /\ now' = 0
    /\ gTimer' = conf.Delay
    /\ deadline' = conf.Timeout
    /\ wait' = 0
    /\ result' = EmptyResult
    /\ lastResult' = EmptyResult
    /\ resCh' = << >>
    /\ resClosed' = FALSE
    /\ cancelCh' = FALSE
    /\ callStart' = 0
    /\ callCtxDone' = FALSE
    /\ refreshCalls' = 0
    /\ refreshLog' = << >>
    /\ sleepLog' = IF conf.Delay > 0 THEN << [dur |-> conf.Delay, after |-> 0] >> ELSE << >>
    /\ outcome' = NoOutcome
    /\ returnedAt' = 0
    /\ callsAtReturn' = 0
    /\ sleepsAtReturn' = 0
    /\ UNCHANGED << op, resourceKind, priorState, instanceID, config, conf, ctxDone, rpcLog,
                    cancelLog, tfState, diags, rpcErr, plan, request, response,
                    providerData, codecVars >>

(* ---------------- the parameter codec on its own ---------------- *)

\* convertTemplateParameters applied to the map.
Encode ==
    /\ codecPc = "input"
    /\ codecPc' = "encoded"
    /\ encoded' = convertTemplateParameters(tfParams)
    /\ UNCHANGED << tfParams, decoded, waitVars >>

\* The result of a successful encoding is decoded.
Decode ==
    /\ codecPc = "encoded"
    /\ encoded.err = NoError
    /\ codecPc' = "decoded"
    /\ decoded' = decodeTemplateParameters(encoded.params)
    /\ UNCHANGED << tfParams, encoded, waitVars >>

(* ---------------- specification ---------------- *)

\* No handler and no wait is running.
Idle ==
    /\ op = "none"
    /\ resourceKind = ""
    /\ priorState = NoModel
    /\ firstRun = NoRun
    /\ instanceID = ""
    /\ config = [Timeout |-> 0, PollInterval |-> 0, MinPollInterval |-> 0]
    /\ conf = StateChangeConf(config)
    /\ pc = "idle"
    /\ g = "none"
    /\ now = 0
    /\ deadline = 0
    /\ gTimer = 0
    /\ wait = 0
    /\ result = EmptyResult
    /\ lastResult = EmptyResult
    /\ resCh = << >>
    /\ resClosed = FALSE
    /\ cancelCh = FALSE
    /\ ctxDone = FALSE
    /\ callStart = 0
    /\ callCtxDone = FALSE
    /\ refreshCalls = 0
    /\ refreshLog = << >>
    /\ rpcLog = << >>
    /\ cancelLog = NoCancel
    /\ rpcErr = NoError
    /\ sleepLog = << >>
    /\ outcome = NoOutcome
    /\ returnedAt = 0
    /\ callsAtReturn = 0
    /\ sleepsAtReturn = 0
    /\ tfState = NoModel
    /\ diags = << >>
    /\ plan = NoPlan
    /\ request = NoRequest
    /\ response = NoObject
    /\ providerData = NoProviderData

Init ==
    /\ Idle
    /\ codecPc = "off"
    /\ tfParams = NullMap
    /\ encoded = NotEncoded
    /\ decoded = NotEncoded

Next ==
    \/ Create
    \/ Update
    \/ CallWaitForReady
    \/ ClusterCreate
    \/ HostCreate
    \/ HostPoolCreate
    \/ ClusterUpdate
    \/ HostUpdate
    \/ HostPoolUpdate
    \/ Read
    \/ DataSourceRead
    \/ Delete
    \/ Configure
    \/ GDelayFire
    \/ GExit
    \/ GSend
    \/ GSelectFire
    \/ RefreshReturn
    \/ GFinalSend
    \/ MainRecv
    \/ MainClosed
    \/ MainCtxDone
    \/ MainTimeout
    \/ GraceRecv
    \/ GraceEnd
    \/ Cancel
    \/ Tick

Spec == Init /\ [][Next]_vars

\* The same program, with waits that are run a second time.
NextReplay == Next \/ Replay

ReplaySpec == Init /\ [][NextReplay]_vars

\* The codec applied to each of its input maps.
CodecInit ==
    /\ Idle
    /\ codecPc = "input"
    /\ tfParams \in ParamMaps
    /\ encoded = NotEncoded
    /\ decoded = NotEncoded

CodecNext == Encode \/ Decode

CodecSpec == CodecInit /\ [][CodecNext]_vars

(* ---------------- notions shared by the properties ---------------- *)

\* WaitForReady has returned to its caller.
WaitReturned == pc = "returned" /\ outcome.kind # "none"

\* The context was cancelled while WaitForReady was running.
Cancelled == ctxDone

\* The timeout fired and WaitForReady returned only when the grace period ran out.
GraceOver == returnedAt >= ApplyDefaults(config).Timeout + refreshGracePeriod

\* The timeout case of the caller's select was taken.
TimeoutFired == pc \in {"grace", "returned"} /\ deadline # ApplyDefaults(config).Timeout

\* The refresh calls that returned while WaitForReady was still running.
LiveCalls == {i \in 1..Len(refreshLog) : refreshLog[i].live}

TargetCalls ==
    {i \in LiveCalls :
        refreshLog[i].raw.Error = NoError /\ refreshLog[i].raw.State \in TargetStates}

\* ... those in which the refresh function itself returned an error.
RefreshErrorCalls == {i \in LiveCalls : refreshLog[i].raw.Error # NoError}

\* ... those that returned, without error, a label neither pending nor target.
UnexpectedCalls ==
    {i \in LiveCalls :
        /\ refreshLog[i].raw.Error = NoError
        /\ refreshLog[i].raw.State \notin PendingStates \cup TargetStates}

\* ... those whose Get read the FAILED state.
FailedCalls == {i \in LiveCalls : refreshLog[i].answer = STATE_FAILED}

\* No sleep was entered after the i-th refresh call returned.
NoSleepAfter(i) == \A k \in 1..Len(sleepLog) : sleepLog[k].after < i

\* The values WaitForReady runs with.
Effective == ApplyDefaults(config)

\* The error is the cancellation error or a Timeout error.
Preempted(err) ==
    \/ err = WaitForReadyError(Err("context canceled", ""))
    \/ HasKind(err, "Timeout")

(* ---------------- C1 ---------------- *)

\* C1 as stated: WaitForReady returns success if and only if a refresh call
\* returned, without error, a label in TargetStates; the object is that call's
\* object and no refresh call is made after it.
C1_AsStated ==
    WaitReturned =>
        /\ outcome.kind = "success" <=> TargetCalls # {}
        /\ outcome.kind = "success" =>
              \E i \in TargetCalls :
                  /\ outcome.obj = refreshLog[i].r.Result
                  /\ refreshCalls = i

\* C1 (amended): WaitForReady returns success only if a refresh call returned,
\* without error, a label in TargetStates; the object returned is the object of
\* that call, it is the last call that returned and no refresh call is made
\* after it.  Conversely such a result makes the wait return success unless
\* the context is cancelled or the grace period that follows the timeout has
\* run out before the caller's loop receives the result.
C1_SuccessIffTarget ==
    WaitReturned =>
        /\ outcome.kind = "success" =>
              /\ TargetCalls = {Len(refreshLog)}
              /\ outcome.obj = refreshLog[Len(refreshLog)].r.Result
              /\ outcome.obj.id = instanceID
              /\ outcome.err = NoError
              /\ refreshCalls = Len(refreshLog)
        /\ (TargetCalls # {} /\ ~Cancelled /\ ~GraceOver) => outcome.kind = "success"

\* C1 witness: the wait succeeded on the target answer of a later poll.
C1_Witness ==
    /\ WaitReturned
    /\ outcome.kind = "success"
    /\ Len(refreshLog) >= 2
    /\ outcome.obj.seq = Len(refreshLog)

(* ---------------- C2 ---------------- *)

\* C2 as stated: the first refresh call that returns an error ends the wait:
\* the wait returns an error wrapping that refresh error, no further refresh
\* call is made and no sleep follows it.
C2_AsStated ==
    \A i \in RefreshErrorCalls :
        /\ refreshCalls = i
        /\ NoSleepAfter(i)
        /\ WaitReturned =>
              /\ outcome.kind = "error"
              /\ Wraps(outcome.err, refreshLog[i].raw.Error)

\* C2 (amended): the first refresh call that returns an error ends the wait
\* at that instant; no further refresh call is made and no sleep follows it;
\* the wait returns an error, and that error wraps the refresh error unless
\* the context is cancelled or the grace period that follows the timeout has
\* run out before the caller's loop receives the result (then the
\* cancellation or the Timeout error is returned).
C2_RefreshErrorEndsWait ==
    \A i \in RefreshErrorCalls :
        /\ i = Len(refreshLog)
        /\ refreshCalls = i
        /\ NoSleepAfter(i)
        /\ pc \in {"wait", "grace"} => now = refreshLog[i].at
        /\ WaitReturned =>
              /\ outcome.kind = "error"
              /\ returnedAt = refreshLog[i].at
              /\ \/ Wraps(outcome.err, refreshLog[i].raw.Error)
                 \/ (Cancelled \/ GraceOver) /\ Preempted(outcome.err)

\* C2 witness: a later poll failed in the Get and the wait returned that error.
C2_Witness ==
    /\ WaitReturned
    /\ \E i \in RefreshErrorCalls :
          /\ i >= 2
          /\ refreshLog[i].answer = "rpc_error"
          /\ Wraps(outcome.err, refreshLog[i].raw.Error)

(* ---------------- C3 ---------------- *)

\* C3 as stated: a label that is neither in PendingStates nor in TargetStates,
\* returned without error, makes the wait terminate with an error that
\* identifies the unexpected state; no more polling, no success.
C3_AsStated ==
    \A i \in UnexpectedCalls :
        /\ refreshCalls = i
        /\ WaitReturned =>
              /\ outcome.kind = "error"
              /\ Wraps(outcome.err, Err("UnexpectedState", refreshLog[i].raw.State))

\* C3 (amended): such a label ends the wait at that instant, with no further
\* refresh call and no sleep; the wait returns an error, never success, and the
\* error identifies the unexpected state unless the context is cancelled or
\* the grace period that follows the timeout has run out before the caller's
\* loop receives the result.
C3_UnexpectedStateEndsWait ==
    \A i \in UnexpectedCalls :
        /\ i = Len(refreshLog)
        /\ refreshCalls = i
        /\ NoSleepAfter(i)
        /\ pc \in {"wait", "grace"} => now = refreshLog[i].at
        /\ WaitReturned =>
              /\ outcome.kind = "error"
              /\ returnedAt = refreshLog[i].at
              /\ \/ Wraps(outcome.err, Err("UnexpectedState", refreshLog[i].raw.State))
                 \/ (Cancelled \/ GraceOver) /\ Preempted(outcome.err)

\* C3 witness: a later poll read a state outside both sets and the wait
\* returned the unexpected-state error naming it.
C3_Witness ==
    /\ WaitReturned
    /\ \E i \in UnexpectedCalls :
          /\ i >= 2
          /\ outcome.err = WaitForReadyError(Err("UnexpectedState", STATE_OTHER))

(* ---------------- C4 ---------------- *)

\* Every refresh call that returned so far returned a pending label, no error.
OnlyPending ==
    \A i \in LiveCalls :
        refreshLog[i].raw.Error = NoError /\ refreshLog[i].raw.State \in PendingStates

\* The states the caller's loop can have kept as the last one.
ObservedStates == {""} \cup {refreshLog[i].raw.State : i \in LiveCalls}

\* The label of the last refresh call that returned, "" before the first.
LastObserved == IF LiveCalls = {} THEN "" ELSE refreshLog[Len(refreshLog)].raw.State

\* The diagnostic Create and Update add for a failed wait names the instance.
DiagCarriesId ==
    op \in {"Create", "Update"} =>
        /\ Len(diags) = 1
        /\ diags[1].id = instanceID
        /\ diags[1].err = outcome.err

C5_AsStated ==
    \A k \in 1..Len(sleepLog) :
        /\ sleepLog[k].after >= 1
        /\ sleepLog[k].after = 1 => sleepLog[k].dur = Effective.MinPollInterval
        /\ sleepLog[k].after >= 2 => sleepLog[k].dur = Effective.PollInterval

(* ---------------- C6 ---------------- *)

\* C6 as stated: n pending labels followed by a target label, all without
\* error and within the timeout, give exactly n+1 refresh calls, exactly n
\* sleeps, and the object of call n+1 with no error.
C6_AsStated ==
    (WaitReturned /\ outcome.kind = "success" /\ ~TimeoutFired /\ ~Cancelled) =>
        /\ refreshCalls = Len(refreshLog)
        /\ Len(sleepLog) = Len(refreshLog) - 1
        /\ outcome.obj = refreshLog[Len(refreshLog)].raw.Result
        /\ outcome.err = NoError

(* ---------------- C7 ---------------- *)

\* C7 as stated: when the first read of the instance reports FAILED, the wait
\* returns a resource-failed error after exactly one refresh call and zero
\* sleeps.
C7_AsStated ==
    (WaitReturned /\ 1 \in FailedCalls /\ ~TimeoutFired /\ ~Cancelled) =>
        /\ HasKind(outcome.err, "compute instance reached FAILED state")
        /\ refreshCalls = 1
        /\ Len(sleepLog) = 0

(* ---------------- C8 ---------------- *)

\* The state of the wait seen as a state machine.
WaitState ==
    IF pc \in {"wait", "grace"} THEN "Polling"
    ELSE IF ~WaitReturned THEN "NotStarted"
    ELSE IF outcome.kind = "success" THEN "Succeeded"
    ELSE IF HasKind(outcome.err, "Timeout") THEN "TimedOut"
    ELSE IF HasKind(outcome.err, "context canceled") THEN "Cancelled"
    ELSE "Failed"

\* C8 as stated: every call ends in one of Succeeded, Failed, TimedOut, and once
\* there no further refresh call or sleep happens.
C8_AsStated ==
    WaitReturned =>
        /\ WaitState \in {"Succeeded", "Failed", "TimedOut"}
        /\ refreshCalls = callsAtReturn
        /\ Len(sleepLog) = sleepsAtReturn

\* What each terminal state rests on.
C8_Terminal ==
    WaitReturned =>
        /\ WaitState \in {"Succeeded", "Failed", "TimedOut", "Cancelled"}
        /\ WaitState = "Succeeded" => TargetCalls # {}
        /\ WaitState = "Failed" => RefreshErrorCalls \cup UnexpectedCalls # {}
        /\ WaitState = "TimedOut" => TimeoutFired
        /\ WaitState = "Cancelled" => Cancelled
        /\ Len(sleepLog) = sleepsAtReturn
        /\ refreshCalls <= callsAtReturn + 1
        /\ ~Cancelled => refreshCalls = callsAtReturn

\* A step of a wait that has returned changes neither the state nor the result.
C8_Frozen ==
    pc = "returned" =>
        /\ pc' = "returned"
        /\ outcome' = outcome
        /\ tfState' = tfState
        /\ diags' = diags

\* A wait starts in Polling.
C8_Starts == (pc = "idle" /\ pc' # "idle") => (pc' = "wait" \/ ~WaitReturned')

\* C8 (amended): the wait is a state machine over Polling, Succeeded, Failed,
\* TimedOut and Cancelled: it starts in Polling and ends in exactly one of the
\* four terminal states (Succeeded on a target label, Failed on a refresh error
\* or an unexpected label, TimedOut once the timeout fired, Cancelled when the
\* context is cancelled); once a terminal state is reached the state and the
\* result never change and no sleep happens; no refresh call happens either,
\* except that a wait ended by cancellation may be followed by one last
\* refresh call of the goroutine it leaves behind.
C8_StateMachine == []C8_Terminal /\ [][C8_Frozen /\ C8_Starts]_vars

\* C8 witness: a wait that ended TimedOut after polling, with nothing after it.
C8_Witness ==
    /\ WaitState = "TimedOut"
    /\ callsAtReturn >= 2
    /\ g = "exit"
    /\ refreshCalls = callsAtReturn

(* ---------------- C9 ---------------- *)

FailedError == Err("compute instance reached FAILED state", "")

\* C9 as stated (for a context that is not cancelled and a wait that ended
\* before the grace period of a fired timeout ran out): a read whose status
\* state is FAILED stops the wait at once with a resource-failed error that
\* carries the resource id and is distinguishable from the Timeout error;
\* polling never continues past it.
C9_AsStated ==
    \A i \in FailedCalls :
        /\ refreshCalls = i
        /\ (WaitReturned /\ ~Cancelled /\ ~GraceOver) =>
              /\ HasKind(outcome.err, "compute instance reached FAILED state")
              /\ ~HasKind(outcome.err, "Timeout")
              /\ DiagCarriesId

\* C9 (amended): at any poll iteration a read whose status state is FAILED
\* stops the wait at that instant; polling never continues past it and no
\* sleep follows.  The wait returns an error which Create and Update report
\* with the resource id.  If neither the timeout has fired nor the context
\* been cancelled, it is the resource-failed error, free of any Timeout
\* error; if the timeout fired first, the failure is the last error inside a
\* Timeout error (or is lost when the grace period has run out); if the
\* context is cancelled the cancellation error may be returned instead.
C9_FailedStopsWait ==
    \A i \in FailedCalls :
        /\ i = Len(refreshLog)
        /\ refreshCalls = i
        /\ NoSleepAfter(i)
        /\ pc \in {"wait", "grace"} => now = refreshLog[i].at
        /\ WaitReturned =>
              /\ outcome.kind = "error"
              /\ returnedAt = refreshLog[i].at
              /\ DiagCarriesId
              /\ (~Cancelled /\ ~TimeoutFired) => outcome.err = WaitForReadyError(FailedError)
              /\ (~Cancelled /\ TimeoutFired /\ ~GraceOver) =>
                    outcome.err =
                        WaitForReadyError(Err("Timeout", STATE_FAILED) \o FailedError)
              /\ \/ Wraps(outcome.err, FailedError)
                 \/ (Cancelled \/ GraceOver) /\ Preempted(outcome.err)

\* C9 witness: Create polled twice, the second read was FAILED, and the
\* diagnostic carries the id and the resource-failed error.
C9_Witness ==
    /\ WaitReturned
    /\ op = "Create"
    /\ FailedCalls = {2}
    /\ Len(diags) = 1
    /\ diags[1].id = instanceID
    /\ diags[1].err = WaitForReadyError(FailedError)

(* ---------------- C10 ---------------- *)

\* The refresh calls whose Get returned an object without status.
AbsentCalls == {i \in LiveCalls : refreshLog[i].answer = "absent"}

\* C10: a Get that returns an object whose status is absent is classified with
\* the pending label UNSPECIFIED and no error (the object is returned), and it
\* does not end the wait: the goroutine goes on to its next sleep and poll,
\* and a wait that ends on it ends by timeout or cancellation only.
C10_AbsentStatusIsPending ==
    \A i \in AbsentCalls :
        /\ refreshLog[i].raw.State = STATE_UNSPECIFIED
        /\ refreshLog[i].raw.Error = NoError
        /\ refreshLog[i].raw.Result.id = instanceID
        /\ refreshLog[i].r = refreshLog[i].raw
        /\ (i = Len(refreshLog) /\ refreshCalls = i) =>
              /\ g \in {"loop", "select", "exit"}
              /\ g = "exit" => cancelCh
              /\ WaitReturned => outcome.kind = "error" /\ Preempted(outcome.err)

\* C10 witness: the first Get had no status, the wait slept and polled again.
C10_Witness ==
    /\ 1 \in AbsentCalls
    /\ \E k \in 1..Len(sleepLog) : sleepLog[k].after = 1
    /\ refreshCalls >= 2
    /\ ~Cancelled
    /\ ~TimeoutFired

(* ---------------- C11 ---------------- *)

\* The values of the ComputeInstanceState enumeration.
EnumeratedStates == {STATE_UNSPECIFIED, STATE_PROGRESSING, STATE_READY, STATE_FAILED}

\* How the wait treated the i-th refresh result: it went on polling
\* ("Pending"), it took it as the target ("Ready"), it ended on the failure
\* error of the refresh function ("Failed"), or it ended on another error.
ClassOf(i) ==
    IF refreshLog[i].r.Done THEN "Ready"
    ELSE IF refreshLog[i].raw.Error = Err("compute instance reached FAILED state", "")
    THEN "Failed"
    ELSE IF refreshLog[i].r.Error = NoError THEN "Pending"
    ELSE "Error"

\* The table of the compute instance kind.
ClassTable(st) ==
    CASE st \in {STATE_UNSPECIFIED, STATE_PROGRESSING} -> "Pending"
      [] st = STATE_READY -> "Ready"
      [] st = STATE_FAILED -> "Failed"

\* C11: for the compute instance kind the pending set {UNSPECIFIED,
\* PROGRESSING}, the target set {READY} and the failure value FAILED are
\* pairwise disjoint and cover the enumerated states, every enumerated state a
\* Get reads is treated as exactly one of Pending, Ready, Failed accordingly,
\* and Create and Update wait with the same sets.
C11_ClassificationTable ==
    pc # "idle" /\ resourceKind = "compute_instance" /\ g # "none" =>
        /\ conf.Pending = {STATE_UNSPECIFIED, STATE_PROGRESSING}
        /\ conf.Target = {STATE_READY}
        /\ conf.Pending \cap conf.Target = {}
        /\ STATE_FAILED \notin conf.Pending \cup conf.Target
        /\ EnumeratedStates = conf.Pending \cup conf.Target \cup {STATE_FAILED}
        /\ \A i \in 1..Len(refreshLog) :
              refreshLog[i].answer \in EnumeratedStates =>
                  /\ ClassOf(i) = ClassTable(refreshLog[i].answer)
                  /\ ClassOf(i) = "Pending" <=> refreshLog[i].raw.State \in conf.Pending
                  /\ ClassOf(i) = "Ready" <=> refreshLog[i].raw.State \in conf.Target

\* C11 witness: an Update read UNSPECIFIED, then PROGRESSING, then READY.
C11_Witness ==
    /\ op = "Update"
    /\ Len(refreshLog) = 3
    /\ refreshLog[1].answer = STATE_UNSPECIFIED
    /\ refreshLog[2].answer = STATE_PROGRESSING
    /\ refreshLog[3].answer = STATE_READY
    /\ ClassOf(1) = "Pending"
    /\ ClassOf(3) = "Ready"

(* ---------------- C12 ---------------- *)

\* The refresh calls whose Get read a state the client does not know.
UnenumeratedCalls ==
    {i \in LiveCalls :
        refreshLog[i].answer \notin EnumeratedStates \cup {"rpc_error", "absent"}}

\* C12 as stated: a status state that is none of READY, FAILED or an
\* enumerated pending value is classified as Pending: the wait goes on polling.
C12_AsStated ==
    \A i \in UnenumeratedCalls :
        /\ refreshLog[i].r.Error = NoError
        /\ ~refreshLog[i].r.Done
        /\ refreshLog[i].raw.State \in conf.Pending

\* C12 (amended): a status state that is none of READY, FAILED or an
\* enumerated pending value is returned by the refresh function under its own
\* label, with the object and without error; the label is neither pending nor
\* target, so the wait stops polling at that instant and returns an error,
\* which names the unexpected state unless the context is cancelled or the
\* grace period that follows the timeout has run out first.
C12_UnenumeratedEndsWait ==
    \A i \in UnenumeratedCalls :
        /\ refreshLog[i].raw.State = refreshLog[i].answer
        /\ refreshLog[i].raw.Error = NoError
        /\ refreshLog[i].raw.Result.id = instanceID
        /\ refreshLog[i].raw.State \notin conf.Pending \cup conf.Target
        /\ refreshLog[i].r.Error = Err("UnexpectedState", refreshLog[i].answer)
        /\ ClassOf(i) = "Error"
        /\ i = Len(refreshLog)
        /\ refreshCalls = i
        /\ g \in {"final", "exit"}
        /\ WaitReturned =>
              /\ outcome.kind = "error"
              /\ \/ outcome.err =
                       WaitForReadyError(Err("UnexpectedState", refreshLog[i].answer))
                 \/ (Cancelled \/ TimeoutFired) /\ Preempted(outcome.err)

\* C12 witness: a Create read a state it does not know on its first poll and
\* reported the unexpected-state error.
C12_Witness ==
    /\ op = "Create"
    /\ WaitReturned
    /\ UnenumeratedCalls = {1}
    /\ Len(diags) = 1
    /\ diags[1].err = WaitForReadyError(Err("UnexpectedState", STATE_OTHER))

(* ---------------- C13 ---------------- *)

\* A handler has returned / has returned without an error diagnostic.
HandlerReturned == pc = "returned" /\ op \notin {"none", "WaitForReady"}

HandlerSucceeded == HandlerReturned /\ diags = << >>

\* The handler is Create or Update of a compute instance.
InstanceApply == op \in {"Create", "Update"} /\ resourceKind = "compute_instance"

\* The Get calls among the remote calls.
GetCalls == {j \in 1..Len(rpcLog) : rpcLog[j].rpc = "Get"}

\* C13: Create and Update of a compute instance drive the poll engine after
\* the remote create/update call has succeeded: every Get follows that call and
\* asks for the returned id; until the handler returns, the response state is
\* untouched; state is recorded and success reported only after a Get on the
\* returned id has read READY, and what is recorded is the object of that Get.
C13_ReadyBeforeSuccess ==
    InstanceApply =>
        /\ pc \in {"wait", "grace"} => tfState = priorState /\ diags = << >>
        /\ GetCalls # {} =>
              /\ rpcLog[1] = Rpc(op, "compute_instance", priorState.ID)
              /\ rpcErr = NoError
              /\ GetCalls = 2..Len(rpcLog)
              /\ \A j \in GetCalls : rpcLog[j] = Rpc("Get", "compute_instance", instanceID)
        /\ (HandlerSucceeded \/ tfState # priorState) =>
              /\ HandlerSucceeded
              /\ outcome.kind = "success"
              /\ GetCalls # {}
              /\ refreshLog # << >>
              /\ refreshLog[Len(refreshLog)].answer = STATE_READY
              /\ refreshLog[Len(refreshLog)].raw.Result = outcome.obj
              /\ tfState = updateModelFromComputeInstance(outcome.obj)
              /\ tfState.ID = instanceID
              /\ tfState.State = STATE_READY

\* C13 witness: an Update that polled twice and recorded the READY instance.
C13_Witness ==
    /\ op = "Update"
    /\ HandlerSucceeded
    /\ Len(rpcLog) = 3
    /\ rpcLog[1].rpc = "Update"
    /\ tfState.State = STATE_READY
    /\ priorState.ID = tfState.ID

(* ---------------- C14 ---------------- *)

\* The handler is Create of a cluster or of a host pool.
ClusterOrPoolCreate == op = "Create" /\ resourceKind \in {"cluster", "host_pool"}

ReadyState(k) ==
    CASE k = "compute_instance" -> STATE_READY
      [] k = "cluster" -> "CLUSTER_STATE_READY"
      [] k = "host" -> "HOST_STATE_READY"
      [] k = "host_pool" -> "HOST_POOL_STATE_READY"

\* C14 as stated: Create of a cluster and Create of a host pool return success
\* only once a Get that follows the remote create call has observed the
\* resource in the ready state.
C14_AsStated ==
    (ClusterOrPoolCreate /\ HandlerSucceeded) =>
        /\ GetCalls # {}
        /\ tfState.State = ReadyState(resourceKind)

\* C14 (amended): Create of a cluster and Create of a host pool issue the
\* remote create call and nothing else: no Get, no poll, no sleep.  When the
\* call succeeds they report success at once and record the object of the
\* create response, whatever its state (the ready state, a state still in
\* progress, the failed state, or no status at all); when it fails they report
\* the error and record nothing.
C14_CreateRecordsResponse ==
    (ClusterOrPoolCreate /\ pc # "idle") =>
        /\ pc = "returned"
        /\ returnedAt = 0
        /\ rpcLog = << Rpc("Create", resourceKind, "") >>
        /\ GetCalls = {}
        /\ refreshCalls = 0
        /\ sleepLog = << >>
        /\ g = "none"
        /\ HandlerSucceeded <=> rpcErr = NoError
        /\ HandlerSucceeded =>
              /\ tfState.ID \in Ids
              /\ tfState.State \in KindStates(resourceKind) \cup {"unknown"}
        /\ ~HandlerSucceeded => tfState = priorState

\* C14 witness: Create of a host pool succeeded on a pool still in progress.
C14_Witness ==
    /\ ClusterOrPoolCreate
    /\ resourceKind = "host_pool"
    /\ HandlerSucceeded
    /\ tfState.State = "HOST_POOL_STATE_PROGRESSING"

(* ---------------- C15 ---------------- *)

\* C15: Delete of any resource kind issues exactly one remote call, the Delete
\* for the recorded id, and no Get afterwards: it does not poll or wait, and
\* it returns at once, with an error diagnostic exactly when the call failed.
C15_DeleteIsOneCall ==
    op = "Delete" =>
        /\ pc = "returned"
        /\ resourceKind \in ResourceKinds
        /\ priorState.ID \in Ids
        /\ rpcLog = << Rpc("Delete", resourceKind, priorState.ID) >>
        /\ GetCalls = {}
        /\ refreshCalls = 0
        /\ sleepLog = << >>
        /\ g = "none"
        /\ returnedAt = 0
        /\ HandlerSucceeded <=> rpcErr = NoError

\* C15 witness: the Delete of a host returned after its one call.
C15_Witness ==
    /\ op = "Delete"
    /\ resourceKind = "host"
    /\ HandlerSucceeded
    /\ Len(rpcLog) = 1

(* ---------------- C16 ---------------- *)

\* C16: Read of a resource and Read of a data source perform exactly one
\* remote call, the Get for the given id, whatever the remote object's state:
\* no poll, no sleep, no Create, Update or Delete; they record the object as
\* it was read, pending and failed states included.
C16_ReadIsOneGet ==
    op \in {"Read", "DataSourceRead"} =>
        /\ pc = "returned"
        /\ Len(rpcLog) = 1
        /\ rpcLog[1].rpc = "Get"
        /\ rpcLog[1].kind = resourceKind
        /\ rpcLog[1].id \in Ids
        /\ op = "Read" => rpcLog[1].id = priorState.ID
        /\ refreshCalls = 0
        /\ sleepLog = << >>
        /\ g = "none"
        /\ returnedAt = 0
        /\ HandlerSucceeded <=> rpcErr = NoError
        /\ HandlerSucceeded => tfState.ID = rpcLog[1].id
        /\ ~HandlerSucceeded => tfState = priorState

\* C16 witness: a data source read a failed cluster and a resource Read read a
\* compute instance still in progress; each made its one Get.
C16_Witness ==
    /\ HandlerSucceeded
    /\ Len(rpcLog) = 1
    /\ \/ op = "DataSourceRead" /\ tfState.State = "CLUSTER_STATE_FAILED"
       \/ op = "Read" /\ tfState.State = STATE_PROGRESSING

(* ---------------- C17 ---------------- *)

\* The steps at which a Create or an Update can fail.
ConversionFailure == HandlerReturned /\ rpcLog = << >>

RemoteCallFailure == HandlerReturned /\ rpcErr # NoError

WaitFailure == HandlerReturned /\ outcome.kind = "error"

\* C17: when a Create or an Update fails at any step (the conversion of the
\* template parameters, the remote call, or the wait for readiness, timeout and
\* FAILED included), the response state is left exactly as it was before the
\* operation and one error diagnostic, carrying the error of that step, is
\* reported; an operation that reports no error failed at none of the steps.
C17_FailureRecordsNothing ==
    (HandlerReturned /\ op \in {"Create", "Update"}) =>
        /\ (ConversionFailure \/ RemoteCallFailure \/ WaitFailure) =>
              /\ tfState = priorState
              /\ Len(diags) = 1
              /\ diags[1].err # NoError
        /\ ConversionFailure =>
              diags[1].summary = "Failed to convert template parameters"
        /\ RemoteCallFailure => diags[1].err = rpcErr /\ Len(rpcLog) = 1
        /\ WaitFailure => diags[1].err = outcome.err /\ diags[1].id = instanceID
        /\ HandlerSucceeded => ~(ConversionFailure \/ RemoteCallFailure \/ WaitFailure)

\* C17 witness: an Update whose wait timed out left the recorded state alone.
C17_Witness ==
    /\ op = "Update"
    /\ WaitFailure
    /\ HasKind(outcome.err, "Timeout")
    /\ priorState.State = STATE_READY
    /\ tfState = priorState
    /\ Len(diags) = 1

(* ---------------- C18 ---------------- *)

\* The remote calls that change the resource.
MutatingCalls == {j \in 1..Len(rpcLog) : rpcLog[j].rpc \in {"Create", "Update", "Delete"}}

\* C18: one invocation issues the remote Create, Update or Delete call at most
\* once, before any other remote call; if that call returns an error the
\* invocation ends at once with that error in its diagnostics, the state
\* untouched, and no further remote call: no retry and no Get.
C18_NoRetry ==
    /\ MutatingCalls \subseteq {1}
    /\ op \in {"Create", "Update", "Delete"} /\ rpcErr # NoError =>
          /\ pc = "returned"
          /\ rpcLog = << Rpc(op, resourceKind, priorState.ID) >>
          /\ refreshCalls = 0
          /\ g = "none"
          /\ returnedAt = 0
          /\ Len(diags) = 1
          /\ diags[1].err = rpcErr
          /\ tfState = priorState

\* C18 witness: the Update of a host failed in its remote call.
C18_Witness ==
    /\ op = "Update"
    /\ resourceKind = "host"
    /\ rpcErr # NoError
    /\ Len(rpcLog) = 1
    /\ Len(diags) = 1

(* ---------------- C19 ---------------- *)

\* ctx.Err() as WaitForReady returns it.
CtxError == WaitForReadyError(Err("context canceled", ""))

\* A refresh call returned at the instant t.
ReturnedAt(t) == {i \in 1..Len(refreshLog) : refreshLog[i].at = t}

\* ... with a result that ends the goroutine: the target, an error, or an
\* unexpected state.
TerminalAt(t) ==
    {i \in ReturnedAt(t) : refreshLog[i].r.Done \/ refreshLog[i].r.Error # NoError}

\* The context was cancelled during a refresh call that did not return at that
\* very instant.
CancelledDuringRefresh ==
    Cancelled /\ cancelLog.g = "refresh" /\ ReturnedAt(cancelLog.at) = {}

\* C19 as stated (for a cancellation during a refresh call): when the context
\* is cancelled while WaitForReady is polling, the wait terminates immediately
\* with a cancellation error distinct from the Timeout error, and no further
\* refresh call is made.
C19_AsStated ==
    CancelledDuringRefresh =>
        /\ pc \in {"wait", "grace"} => now = cancelLog.at
        /\ refreshCalls = cancelLog.calls
        /\ WaitReturned =>
              /\ returnedAt = cancelLog.at
              /\ outcome.err = CtxError
              /\ ~HasKind(outcome.err, "Timeout")

\* C19 (amended): when the context is cancelled while WaitForReady is running,
\* the wait terminates at that instant.  If the timeout has not fired and no
\* refresh call returns a final result at that very instant, it returns the
\* cancellation error, which is distinct from the Timeout error.  If the
\* timeout has fired (the wait is in, or enters, its grace period) it returns
\* the Timeout error, or success when the refresh in flight delivers the
\* target at that instant.  At most one further refresh call is made, by the
\* goroutine racing with the cancellation; it is made with the cancelled
\* context and fails.
C19_CancelEndsWait ==
    Cancelled =>
        /\ pc \in {"wait", "grace"} => now = cancelLog.at
        /\ refreshCalls <= cancelLog.calls + 1
        /\ refreshCalls > cancelLog.calls =>
              /\ callCtxDone
              /\ callStart = cancelLog.at
              /\ cancelLog.g \in {"delay", "loop", "select"}
              /\ Len(refreshLog) = refreshCalls =>
                    refreshLog[refreshCalls].answer = "rpc_error"
        /\ WaitReturned =>
              /\ returnedAt = cancelLog.at
              /\ (~TimeoutFired /\ TerminalAt(cancelLog.at) = {}) => outcome.err = CtxError
              /\ (TimeoutFired /\ TerminalAt(cancelLog.at) = {}) =>
                    HasKind(outcome.err, "Timeout")
              /\ TimeoutFired =>
                    outcome.kind = "success" \/ HasKind(outcome.err, "Timeout")
              /\ outcome.err = CtxError =>
                    ~HasKind(outcome.err, "Timeout") /\ WaitState = "Cancelled"

\* C19 witness: cancelled during the sleep after a pending poll, and cancelled
\* during a refresh call; both returned the cancellation error at once.
C19_Witness ==
    /\ WaitReturned
    /\ Cancelled
    /\ cancelLog.g \in {"select", "refresh"}
    /\ cancelLog.calls >= 2
    /\ cancelLog.at > 0
    /\ ReturnedAt(cancelLog.at) = {}
    /\ outcome.err = CtxError
    /\ refreshCalls = cancelLog.calls

(* ---------------- C20 ---------------- *)

\* The second run of a replayed wait has returned.
ReplayReturned == firstRun.done /\ WaitReturned

\* C20 as stated: two runs of WaitForReady given the same sequence of refresh
\* results and the same configuration end in the same terminal outcome and
\* the same error kind, after the same number of refresh calls.
C20_AsStated ==
    ReplayReturned =>
        /\ outcome.kind = firstRun.outcome.kind
        /\ HasKind(outcome.err, "Timeout") <=> HasKind(firstRun.outcome.err, "Timeout")
        /\ callsAtReturn = firstRun.calls

\* C20 (amended): two runs of WaitForReady given the same sequence of refresh
\* results and the same configuration, in neither of which the timeout fires
\* or the context is cancelled, end in the same outcome, with the same object
\* or the same error, after the same number of refresh calls.
C20_SameOutcomeWithinTimeout ==
    (ReplayReturned /\ ~TimeoutFired /\ ~firstRun.timedOut) =>
        /\ outcome = firstRun.outcome
        /\ callsAtReturn = firstRun.calls
        /\ refreshCalls = firstRun.calls
        /\ [i \in 1..Len(refreshLog) |-> refreshLog[i].answer] = firstRun.answers

\* C20 witness: a wait that polled three times and ended in an error was run
\* again, its calls taking another time, and ended in the same error after
\* three calls.
C20_Witness ==
    /\ ReplayReturned
    /\ ~TimeoutFired
    /\ ~firstRun.timedOut
    /\ firstRun.calls = 3
    /\ firstRun.outcome.kind = "error"
    /\ outcome = firstRun.outcome
    /\ \E i \in 1..Len(refreshLog) : refreshLog[i].at > 0

(* ---------------- C21 ---------------- *)

\* A map of string-valued parameters: present, every element a known string.
StringValued(tfMap) ==
    /\ ~tfMap.null
    /\ ~tfMap.unknown
    /\ \A n \in DOMAIN tfMap.elems : ~tfMap.elems[n].null /\ ~tfMap.elems[n].unknown

\* C21: for every map of string-valued parameters the encoding succeeds, and
\* decoding its result yields the original map: the same names and, for each
\* name, the same string.
C21_RoundTrip ==
    StringValued(tfParams) =>
        /\ codecPc \in {"encoded", "decoded"} => encoded.err = NoError
        /\ codecPc = "decoded" =>
              /\ decoded.err = NoError
              /\ DOMAIN decoded.params = DOMAIN tfParams.elems
              /\ \A n \in DOMAIN tfParams.elems :
                     decoded.params[n] = tfParams.elems[n].value

\* A map of two parameters, one of them the empty string, has been encoded
\* and decoded.
C21_Witness ==
    /\ codecPc = "decoded"
    /\ StringValued(tfParams)
    /\ DOMAIN tfParams.elems = {"key", "k2"}
    /\ tfParams.elems["key"].value = << 97, 98 >>
    /\ tfParams.elems["k2"].value = << >>
    /\ DOMAIN decoded.params = {"key", "k2"}
    /\ decoded.params["key"] = << 97, 98 >>

(* ---------------- C22 ---------------- *)

\* The envelope is tagged as a scalar string and wraps the string.
WrapsString(envelope, str) ==
    /\ envelope.type_url = StringValueTypeURL
    /\ UnmarshalStringValue(envelope.value) = [value |-> str, ok |-> TRUE]

\* The result is an envelope map with the names of the map, each envelope
\* wrapping that name's value.
EnvelopesOf(res, tfMap) ==
    /\ res.err = NoError
    /\ DOMAIN res.params = DOMAIN tfMap.elems
    /\ \A n \in DOMAIN tfMap.elems : WrapsString(res.params[n], tfMap.elems[n].value)

Encoded == codecPc \in {"encoded", "decoded"}

\* C22 as stated: encoding an absent or empty map does not fail and yields
\* no parameters, and encoding any present map yields an envelope for each of
\* its names.
C22_AsStated ==
    Encoded =>
        /\ (tfParams.null \/ DOMAIN tfParams.elems = {}) =>
               encoded.err = NoError /\ DOMAIN encoded.params = {}
        /\ (~tfParams.null /\ ~tfParams.unknown) => EnvelopesOf(encoded, tfParams)

\* C22: encoding an absent (null or unknown) or empty map does not fail and
\* yields no parameters; encoding a present map whose values are all known
\* strings yields an envelope map with exactly its names, each envelope tagged
\* as a scalar string wrapping that name's value; a present map with a null
\* or unknown value is refused with an error and yields no parameters.
C22_EncodesStrings ==
    Encoded =>
        /\ (tfParams.null \/ tfParams.unknown \/ DOMAIN tfParams.elems = {}) =>
               encoded.err = NoError /\ DOMAIN encoded.params = {}
        /\ StringValued(tfParams) => EnvelopesOf(encoded, tfParams)
        /\ (~tfParams.null /\ ~tfParams.unknown /\ ~StringValued(tfParams)) =>
               /\ HasKind(encoded.err, "failed to extract template parameters")
               /\ DOMAIN encoded.params = {}

\* A map of two strings, one of them empty, has been encoded.
C22_Witness ==
    /\ codecPc = "encoded"
    /\ StringValued(tfParams)
    /\ DOMAIN tfParams.elems = {"key", "k2"}
    /\ tfParams.elems["k2"].value = << >>
    /\ encoded.err = NoError
    /\ DOMAIN encoded.params = {"key", "k2"}
    /\ encoded.params["key"].type_url = "type.googleapis.com/google.protobuf.StringValue"

(* ---------------- C23 ---------------- *)

\* A Create of a kind with template parameters has issued its remote call.
CreateSent ==
    /\ op = "Create"
    /\ resourceKind \in {"cluster", "compute_instance"}
    /\ rpcLog # << >>

\* C23: the remote spec built by Create of a cluster or of a compute instance
\* carries an encoded parameter for every declared template parameter.
C23_AsStated ==
    (CreateSent /\ StringValued(plan.TemplateParameters)) =>
        /\ rpcLog[1] = Rpc("Create", resourceKind, "")
        /\ DOMAIN request.spec.template_parameters = DOMAIN plan.TemplateParameters.elems
        /\ \A n \in DOMAIN plan.TemplateParameters.elems :
               WrapsString(request.spec.template_parameters[n],
                           plan.TemplateParameters.elems[n].value)

(* ---------------- C24 ---------------- *)

ConfigureReturned == op = "Configure" /\ pc = "returned"

\* The two authentication methods as the claim names them.
TokenGiven == plan.Token \notin {"null", ""}

CredentialsGiven ==
    /\ plan.ClientID \notin {"null", ""}
    /\ plan.ClientSecret \notin {"null", ""}
    /\ plan.Issuer \notin {"null", ""}

Accepted == diags = << >> /\ providerData.Conn /\ providerData.Clients # {}

\* C24: Configure accepts a configuration only when exactly one of the two
\* authentication methods is given (a non-empty token, or client_id,
\* client_secret and issuer all non-empty); with both or with neither it
\* reports an error and creates no connection and no service client.
C24_OneAuthenticationMethod ==
    ConfigureReturned =>
        /\ Accepted => (TokenGiven /\ ~CredentialsGiven) \/ (~TokenGiven /\ CredentialsGiven)
        /\ (TokenGiven <=> CredentialsGiven) =>
               /\ Len(diags) = 1
               /\ diags[1].summary = IF TokenGiven
                                      THEN "Invalid authentication configuration"
                                      ELSE "Missing authentication configuration"
               /\ ~providerData.Conn
               /\ providerData.Clients = {}
        /\ ~Accepted => diags # << >> /\ providerData = NoProviderData

\* A configuration with a token and only part of the OAuth2 credentials was
\* accepted.
C24_Witness ==
    /\ ConfigureReturned
    /\ Accepted
    /\ TokenGiven
    /\ plan.ClientID = "set"
    /\ plan.Issuer = "null"
    /\ "Clusters" \in providerData.Clients

(* ---------------- C25 ---------------- *)

\* WaitForStateContext has been entered with the configuration built by
\* WaitForReady.
WaitEntered == g # "none"

\* C25: WaitForReady replaces exactly the fields left at zero by their
\* defaults, 30 minutes for Timeout, 10 seconds for PollInterval and 5 seconds
\* for MinPollInterval, and passes a non-zero field on unchanged.
C25_DefaultsApplied ==
    WaitEntered =>
        /\ conf.Timeout = IF config.Timeout = 0 THEN 30 * 60 * 1000 ELSE config.Timeout
        /\ conf.Delay = IF config.PollInterval = 0 THEN 10 * 1000 ELSE config.PollInterval
        /\ conf.MinTimeout =
               IF config.MinPollInterval = 0 THEN 5 * 1000 ELSE config.MinPollInterval

\* A wait called with a poll interval only has returned: the timeout and the
\* minimal interval are the defaults, the poll interval is the one given.
C25_Witness ==
    /\ op = "WaitForReady"
    /\ pc = "returned"
    /\ config = [Timeout |-> 0, PollInterval |-> 20, MinPollInterval |-> 0]
    /\ conf.Timeout = 1800000
    /\ conf.Delay = 20
    /\ conf.MinTimeout = 5000

(* ---------------- C26 ---------------- *)

\* Create or Update of a cluster or of a host pool has issued its remote call.
SetsSent ==
    /\ op \in {"Create", "Update"}
    /\ resourceKind \in {"cluster", "host_pool"}
    /\ rpcLog # << >>

\* The declared node or host sets, the sets of the object sent, of the object
\* returned and of the recorded state.
DeclaredSets == IF resourceKind = "cluster" THEN plan.NodeSets ELSE plan.HostSets

SentSets ==
    IF resourceKind = "cluster" THEN request.spec.node_sets ELSE request.spec.host_sets

ReturnedSets ==
    IF resourceKind = "cluster" THEN response.spec.node_sets ELSE response.spec.host_sets

RecordedSets == IF resourceKind = "cluster" THEN tfState.NodeSets ELSE tfState.HostSets

\* C26: the node or host sets sent by Create and by Update of a cluster or a
\* host pool are exactly the declared ones, each with the declared host_class
\* and size, whatever the prior state holds (Update sends all of them, not the
\* difference); and when the remote object returns them as sent, the recorded
\* sets have the declared names and values.
C26_SetsMapping ==
    SetsSent =>
        /\ (DeclaredSets.null \/ DeclaredSets.unknown) => DOMAIN SentSets = {}
        /\ (~DeclaredSets.null /\ ~DeclaredSets.unknown) =>
              /\ DOMAIN SentSets = DOMAIN DeclaredSets.elems
              /\ \A n \in DOMAIN DeclaredSets.elems :
                    /\ SentSets[n].host_class = DeclaredSets.elems[n].HostClass
                    /\ SentSets[n].size = DeclaredSets.elems[n].Size
              /\ (HandlerSucceeded /\ response.spec.present /\ ReturnedSets = SentSets) =>
                    /\ ~RecordedSets.null
                    /\ ~RecordedSets.unknown
                    /\ DOMAIN RecordedSets.elems = DOMAIN DeclaredSets.elems
                    /\ \A n \in DOMAIN DeclaredSets.elems :
                          /\ RecordedSets.elems[n].HostClass = DeclaredSets.elems[n].HostClass
                          /\ RecordedSets.elems[n].Size = DeclaredSets.elems[n].Size

\* An Update of a cluster whose recorded state has the set "workers" declared
\* that same set; all of it was sent, returned and recorded.
C26_Witness ==
    /\ SetsSent
    /\ op = "Update"
    /\ resourceKind = "cluster"
    /\ HandlerSucceeded
    /\ priorState.NodeSets = plan.NodeSets
    /\ DOMAIN plan.NodeSets.elems = {"workers"}
    /\ DOMAIN request.spec.node_sets = {"workers"}
    /\ request.spec.node_sets["workers"].size = 3
    /\ response.spec = request.spec
    /\ tfState.NodeSets.elems["workers"].Size = 3

(* ---------------- C27 ---------------- *)

\* The objects the Gets of the wait returned, in order.
PolledObjects == [i \in 1..Len(refreshLog) |-> GetObject(instanceID, refreshLog[i].answer, i)]

\* C27: when Create or Update of a compute instance ends without error, the
\* recorded state is the READY label, and the recorded id and ip_address are
\* those of the object that the last Get of the wait returned, not those of
\* the Create / Update response or of an earlier poll.
C27_RecordsLastObservation ==
    (InstanceApply /\ HandlerSucceeded) =>
        /\ refreshLog # << >>
        /\ Len(refreshLog) = Cardinality(GetCalls)
        /\ tfState.State = "COMPUTE_INSTANCE_STATE_READY"
        /\ tfState.ID = PolledObjects[Len(refreshLog)].id
        /\ tfState.IPAddress = PolledObjects[Len(refreshLog)].ip
        /\ tfState.IPAddress # response.ip
        /\ \A i \in 1..(Len(refreshLog) - 1) : tfState.IPAddress # PolledObjects[i].ip

\* A Create recorded the address reported to its third Get.
C27_Witness ==
    /\ InstanceApply
    /\ op = "Create"
    /\ HandlerSucceeded
    /\ Len(refreshLog) = 3
    /\ refreshLog[1].answer = STATE_PROGRESSING
    /\ refreshLog[2].answer = "absent"
    /\ tfState = [ID |-> instanceID, State |-> STATE_READY, IPAddress |-> "10.0.0.3"]
    /\ response.ip = "10.0.0.0"

(* ---------------- C28 ---------------- *)

\* C28: Create and Update of a compute instance issue no Get unless their
\* create / update call has returned an object without error; that call is
\* the first remote call, every Get comes after it, and every Get of the wait
\* asks for the id of the object that call returned.
C28_PollsReturnedId ==
    InstanceApply =>
        /\ (response = NoObject \/ rpcErr # NoError) =>
              /\ GetCalls = {}
              /\ refreshCalls = 0
              /\ refreshLog = << >>
        /\ GetCalls # {} =>
              /\ rpcLog[1].rpc = op
              /\ 1 \notin GetCalls
              /\ response.id \in Ids
              /\ \A j \in GetCalls : rpcLog[j].id = response.id
              /\ Cardinality({rpcLog[j].id : j \in GetCalls}) = 1

\* A Create whose call returned the instance i2 and that has polled it thrice.
C28_Witness ==
    /\ InstanceApply
    /\ op = "Create"
    /\ request.id = ""
    /\ response.id = "i2"
    /\ Cardinality(GetCalls) = 3
    /\ \A j \in GetCalls : rpcLog[j] = Rpc("Get", "compute_instance", "i2")

(* ---------------- C29 ---------------- *)

\* The handler has set the state from a remote object: Create and Update of a
\* compute instance from the object of the wait, the others from the object
\* of their one remote call.
MappedToState ==
    /\ HandlerSucceeded
    /\ op \in {"Create", "Update", "Read", "DataSourceRead"}
    /\ resourceKind \in ResourceKinds
    /\ rpcErr = NoError

MappedObject == IF InstanceApply THEN outcome.obj ELSE response

\* The status fields of the kind; the host data source names the current
\* power state power_state.
StatusFields(k) ==
    CASE k = "compute_instance" -> {"State", "IPAddress"}
      [] k = "cluster" -> {"State", "ApiURL", "ConsoleURL"}
      [] k = "host" -> IF op = "DataSourceRead" THEN {"State", "PowerState"}
                       ELSE {"State", "CurrentPowerState"}
      [] k = "host_pool" -> {"State", "Hosts"}

\* A status field that holds nothing an earlier observation put there.
NotCarriedOver(f) ==
    IF f = "Hosts" THEN tfState[f] = NullMap \/ tfState[f] # priorState[f]
    ELSE tfState[f] = "null" \/ tfState[f] # priorState[f]

\* C29 as stated: after an operation has mapped a remote object without status
\* into the state, no status field of the kind (state, ip_address; state,
\* api_url, console_url; state, current_power_state; state, hosts) holds the
\* value of the earlier observation.
C29_AsStated ==
    (MappedToState /\ MappedObject.status = "absent") =>
        \A f \in StatusFields(resourceKind) : NotCarriedOver(f)

(* ---------------- C30 ---------------- *)

\* Create or Update of a host declared ON or OFF has recorded the object of
\* a remote that echoed the spec it was sent.
HostAppliedWithEcho ==
    /\ HandlerSucceeded
    /\ resourceKind = "host"
    /\ op \in {"Create", "Update"}
    /\ rpcErr = NoError
    /\ plan.PowerState \in {"ON", "OFF"}
    /\ response.spec = request.spec

\* Read of a host whose recorded power_state is the declared ON or OFF, answered
\* with the spec that value was sent as.
HostReadWithEcho ==
    /\ HandlerSucceeded
    /\ resourceKind = "host"
    /\ op = "Read"
    /\ rpcErr = NoError
    /\ priorState.PowerState \in {"ON", "OFF"}
    /\ response.spec.present
    /\ response.spec.power_state = parsePowerState(priorState.PowerState)

\* C30 as stated: for a host declared ON or OFF whose spec the remote echoes,
\* the power_state recorded by Create, Update or Read is the declared value,
\* and parsing the recorded value yields the remote power state again.
C30_AsStated ==
    /\ HostAppliedWithEcho =>
          /\ tfState.PowerState = plan.PowerState
          /\ parsePowerState(tfState.PowerState) = response.spec.power_state
    /\ HostReadWithEcho =>
          /\ tfState.PowerState = priorState.PowerState
          /\ parsePowerState(tfState.PowerState) = response.spec.power_state

====
